---------------------------- MODULE Spec2Model ----------------------------
(***************************************************************************)
(* A model of the seeding template: the temporal backfill of               *)
(* utils/data_utils.py (update_entity_dates), the extraction of a record   *)
(* list from language-model output of utils/api_utils.py                   *)
(* (parse_anthropic_response), the deduplication and the submission loop   *)
(* of core/example_entity.py (seed_example_entity) with the session and    *)
(* form submission of utils/api_utils.py, ensure_unique_datetime,          *)
(* calculate_activity_date and calculate_activity_date_modified of         *)
(* utils/helpers.py, update_entity_owners of utils/data_utils.py, and the  *)
(* datastore handle of utils/database.py with the seed command of          *)
(* app_cli.py.                                                             *)
(*                                                                         *)
(* A datetime is a record [d, h, m, s, us]: d is the calendar day as a     *)
(* day number, the other fields are the time of day.  A timedelta is a     *)
(* number of days unless said otherwise.  An optional value (None in the   *)
(* source) is a sequence of length 0 or 1.                                 *)
(***************************************************************************)
EXTENDS Integers, Sequences, FiniteSets, TLC

VARIABLES
    \* ---- update_entity_dates ------------------------------------------
    total_items,     \* len(seeded_items)
    months_back,     \* the months_back argument
    shuffle_dates,   \* the shuffle_dates argument
    index_mapping,   \* idx -> date_idx, as a sequence over 1..total_items
    now,             \* the clock value read at the start of the run
    originals,       \* the original data of the batch, <<own, listed>>
    missing_id,      \* indices of the seeded items that carry no identifier
    idx,             \* position of the loop over seeded_items
    loc,             \* locals of the latest iteration that reached the UPDATE
    stmt,            \* parameters of the latest cursor.execute, <<>> before
    committed,       \* the final commit was issued
    \* ---- parse_anthropic_response --------------------------------------
    text_content,    \* response_data["content"][0]["text"]
    source,          \* what the text was produced from (for the properties)
    result,          \* <<>> before the call, then its outcome
    \* ---- seed_example_entity: deduplication ----------------------------
    entities_data,   \* load_existing_data(DATA_ENTITIES_FILEPATH)
    seen_names,      \* the set seen_names
    unique_entities, \* the list unique_entities
    entity_pos,      \* position of the loop over entities_data
    \* ---- ensure_unique_datetime ----------------------------------------
    unique_call,     \* the arguments of the call, used_dates as it was given
    used_dates,      \* the set used_dates
    unique_loc,      \* the locals of the call and where it stands
    returned_dates,  \* what the earlier calls on the same set returned
    \* ---- seed_example_entity: submission loop and session --------------
    batch,           \* len(unique_entities)
    http,            \* _session and _cookies, with the counts of the scope
    seed,            \* the locals of the running attempt and where it stands
    posts,           \* row -> requests posted for the row in the whole run
    slept,           \* seconds waited between attempts
    backfilled,      \* the batch whose backfill was completed, <<>> before
    summary,         \* <<>>, then the value seed_example_entity returned
    first_seeded,    \* <<>>, then the first row seeded in the run and the
                     \* number of requests posted for it by then
    \* ---- update_entity_owners --------------------------------------------
    all_users,       \* the userID values get_all_users returned, in order
    seeded_items,    \* the seeded_id_key value of every seeded item
    api_table,       \* table_name in api_supported_tables
    owner_idx,       \* position of the loop over seeded_items
    owner_ids,       \* idx -> the owner_id of the iteration, <<>> if skipped
    executed,        \* parameters of the UPDATE statements, in order
    owners_pc,       \* where the call stands
    \* ---- the datastore handle and the seed command -----------------------
    db_connection,   \* _db_connection: <<>> for None, else <<handle>>
    connected,       \* handles aiomysql.connect returned and nobody closed
    db_history,      \* connects made so far, and the last of open and close
    db_call,         \* the latest call of the module and its outcome
    cli,             \* where the seed command stands
    \* ---- calculate_activity_date and its modification date ---------------
    activity_call,   \* the arguments of calculate_activity_date
    activity_date,   \* <<>>, then the date calculate_activity_date returned
    date_modified    \* <<>>, then what calculate_activity_date_modified returned

dateVars == <<total_items, months_back, shuffle_dates, index_mapping, now,
              originals, missing_id, idx, loc, stmt, committed>>

parseVars == <<text_content, source, result>>

dedupVars == <<entities_data, seen_names, unique_entities, entity_pos>>

uniqueVars == <<unique_call, used_dates, unique_loc, returned_dates>>

seedVars == <<batch, http, seed, posts, slept, backfilled, summary,
              first_seeded>>

ownersVars == <<all_users, seeded_items, api_table, owner_idx, owner_ids,
                executed, owners_pc>>

dbVars == <<db_connection, connected, db_history, db_call, cli>>

activityVars == <<activity_call, activity_date, date_modified>>

vars == <<dateVars, parseVars, dedupVars, uniqueVars, seedVars,
         ownersVars,
         dbVars,
         activityVars>>

\* The variables of the other components, for each component.
notDateVars == <<parseVars, dedupVars, uniqueVars, seedVars,
    ownersVars,
    dbVars,
    activityVars>>
notParseVars == <<dateVars, dedupVars, uniqueVars, seedVars,
    ownersVars,
    dbVars,
    activityVars>>
notDedupVars == <<dateVars, parseVars, uniqueVars, seedVars,
    ownersVars,
    dbVars,
    activityVars>>
notUniqueVars == <<dateVars, parseVars, dedupVars, seedVars,
    ownersVars,
    dbVars,
    activityVars>>
notSeedVars == <<dateVars, parseVars, dedupVars, uniqueVars,
    ownersVars,
    dbVars,
    activityVars>>
notOwnersVars == <<dateVars, parseVars, dedupVars, uniqueVars, seedVars,
    dbVars,
    activityVars>>
notDbVars == <<dateVars, parseVars, dedupVars, uniqueVars, seedVars, ownersVars,
    activityVars>>
notActivityVars == <<dateVars, parseVars, dedupVars, uniqueVars, seedVars, ownersVars, dbVars>>

-----------------------------------------------------------------------------
(* Each component runs on its own: while one runs, the others are idle.    *)

\* The date run is over.
DatesIdle ==
    /\ total_items = 0
    /\ months_back = 1
    /\ shuffle_dates = FALSE
    /\ index_mapping = <<>>
    /\ now = [d |-> 0, h |-> 0, m |-> 0, s |-> 0, us |-> 0]
    /\ originals = <<>>
    /\ missing_id = {}
    /\ idx = 0
    /\ loc = <<>>
    /\ stmt = <<>>
    /\ committed = TRUE

\* No reply is being parsed.
ParseIdle ==
    /\ text_content = <<>>
    /\ source = [kind |-> "none", records |-> <<>>, complete |-> 0]
    /\ result = <<>>

\* No batch is being deduplicated.
DedupIdle ==
    /\ entities_data = <<>>
    /\ seen_names = {}
    /\ unique_entities = <<>>
    /\ entity_pos = 0

\* No timestamp is being made unique.
UniqueIdle ==
    /\ unique_call = <<>>
    /\ used_dates = {}
    /\ unique_loc = <<>>
    /\ returned_dates = <<>>

\* No seeding run is under way.
SeedIdle ==
    /\ batch = 0
    /\ http = <<>>
    /\ seed = <<>>
    /\ posts = <<>>
    /\ slept = 0
    /\ backfilled = <<>>
    /\ summary = <<>>
    /\ first_seeded = <<>>

\* No owners are being assigned.
OwnersIdle ==
    /\ all_users = <<>>
    /\ seeded_items = <<>>
    /\ api_table = FALSE
    /\ owner_idx = 0
    /\ owner_ids = <<>>
    /\ executed = <<>>
    /\ owners_pc = "done"

\* No command is running and the datastore handle was never opened.
DbIdle ==
    /\ db_connection = <<>>
    /\ connected = {}
    /\ db_history = [connects |-> 0, last |-> "none"]
    /\ db_call = <<>>
    /\ cli = <<>>

\* No activity date is being calculated.
ActivityIdle ==
    /\ activity_call = <<>>
    /\ activity_date = <<>>
    /\ date_modified = <<>>

OnlyDates == ParseIdle /\ DedupIdle /\ UniqueIdle /\ SeedIdle /\ OwnersIdle /\ DbIdle /\ ActivityIdle
OnlyParse == DatesIdle /\ DedupIdle /\ UniqueIdle /\ SeedIdle /\ OwnersIdle /\ DbIdle /\ ActivityIdle
OnlyDedup == DatesIdle /\ ParseIdle /\ UniqueIdle /\ SeedIdle /\ OwnersIdle /\ DbIdle /\ ActivityIdle
OnlyUnique == DatesIdle /\ ParseIdle /\ DedupIdle /\ SeedIdle /\ OwnersIdle /\ DbIdle /\ ActivityIdle
OnlySeed == DatesIdle /\ ParseIdle /\ DedupIdle /\ UniqueIdle /\ OwnersIdle /\ DbIdle /\ ActivityIdle
OnlyOwners == DatesIdle /\ ParseIdle /\ DedupIdle /\ UniqueIdle /\ SeedIdle /\ DbIdle /\ ActivityIdle
OnlyDb == DatesIdle /\ ParseIdle /\ DedupIdle /\ UniqueIdle /\ SeedIdle /\ OwnersIdle /\ ActivityIdle
OnlyActivity == DatesIdle /\ ParseIdle /\ DedupIdle /\ UniqueIdle /\ SeedIdle /\ OwnersIdle /\ DbIdle

-----------------------------------------------------------------------------
(* Bounds of the model.                                                    *)

\* Records of a generated array.
MaxRecords == 2

\* Length of the texts enumerated character by character.
MaxTextLen == 4

MaxItems == 12
MaxMonths == 2
MaxShuffleItems == 3

-----------------------------------------------------------------------------
(* Arithmetic helpers.                                                     *)

Min(a, b) == IF a <= b THEN a ELSE b
Max(a, b) == IF a >= b THEN a ELSE b

\* Python's floor division for an integer numerator and a positive divisor.
FloorDiv(a, b) == a \div b

-----------------------------------------------------------------------------
(* datetime and timedelta.                                                 *)

SecOfDay(t) == t.h * 3600 + t.m * 60 + t.s

\* datetime.__lt__ / __le__ / __gt__
DtLT(a, b) ==
    \/ a.d < b.d
    \/ a.d = b.d /\ SecOfDay(a) < SecOfDay(b)
    \/ a.d = b.d /\ SecOfDay(a) = SecOfDay(b) /\ a.us < b.us
DtLE(a, b) == a = b \/ DtLT(a, b)
DtGT(a, b) == DtLT(b, a)

\* dt +/- timedelta(days=k): the time of day is kept.
AddDays(t, k) == [t EXCEPT !.d = t.d + k]

\* dt + timedelta(hours=hh, seconds=ss), with the carry into the day.
AddHoursSeconds(t, hh, ss) ==
    LET total == SecOfDay(t) + hh * 3600 + ss
        sod == total % 86400
    IN  [d |-> t.d + (total \div 86400),
         h |-> sod \div 3600,
         m |-> (sod % 3600) \div 60,
         s |-> sod % 60,
         us |-> t.us]

\* (a - b).days: a timedelta is normalised with 0 <= seconds, so .days is the
\* floor of the difference in days.
DaysBetween(a, b) ==
    IF SecOfDay(a) < SecOfDay(b) \/ (SecOfDay(a) = SecOfDay(b) /\ a.us < b.us)
    THEN a.d - b.d - 1
    ELSE a.d - b.d

\* dt.replace(hour=, minute=, second=, microsecond=)
ReplaceTime(t, tod) == [d |-> t.d, h |-> tod.h, m |-> tod.m, s |-> tod.s, us |-> tod.us]

\* safe_strptime(date_str, "%d-%m-%y %I:%M %p"): a date string is "" (no such
\* key), unparsable, or denotes a datetime to the minute.
safe_strptime(str) ==
    IF str.k = "ok"
    THEN <<[d |-> str.dt.d, h |-> str.dt.h, m |-> str.dt.m, s |-> 0, us |-> 0]>>
    ELSE <<>>

-----------------------------------------------------------------------------
(* update_entity_dates: the creation date.                                 *)

\* The values int() returns for the float expressions of the source are
\* those of IEEE-754 doubles.  For the index interpolations
\* (date_idx / (total_items - 1)) * k + variation of lines 137-140, 177-181,
\* 201-203 and 222-225 they equal the exact floor for every
\* total_items <= 14 and months_back <= 3; for the blend 0.3 * a + 0.7 * b
\* the double sum falls just short of the exact integer for the pairs
\* <<a, b>> listed here (0 <= a <= 90, 0 <= b <= 99), and int() then returns
\* one less.
BlendShortfall == {
    <<0, 90>>, <<1, 11>>, <<1, 51>>, <<1, 61>>, <<1, 71>>, <<1, 81>>,
    <<1, 91>>, <<2, 12>>, <<2, 22>>, <<2, 92>>, <<3, 3>>, <<3, 23>>,
    <<3, 33>>, <<3, 43>>, <<3, 53>>, <<3, 63>>, <<3, 73>>, <<3, 83>>,
    <<4, 14>>, <<4, 24>>, <<4, 34>>, <<4, 44>>, <<5, 85>>, <<6, 6>>,
    <<6, 46>>, <<6, 56>>, <<6, 66>>, <<6, 76>>, <<6, 86>>, <<6, 96>>,
    <<7, 17>>, <<7, 97>>, <<8, 28>>, <<8, 38>>, <<8, 48>>, <<8, 58>>,
    <<8, 68>>, <<8, 78>>, <<8, 88>>, <<9, 19>>, <<9, 29>>, <<9, 39>>,
    <<11, 51>>, <<11, 61>>, <<11, 71>>, <<11, 81>>, <<12, 12>>, <<12, 92>>,
    <<13, 23>>, <<13, 33>>, <<13, 53>>, <<13, 63>>, <<13, 73>>, <<13, 83>>,
    <<14, 24>>, <<14, 34>>, <<15, 85>>, <<16, 46>>, <<16, 56>>, <<16, 66>>,
    <<16, 76>>, <<16, 96>>, <<17, 97>>, <<18, 28>>, <<18, 38>>, <<18, 48>>,
    <<18, 58>>, <<18, 68>>, <<18, 78>>, <<19, 29>>, <<21, 51>>, <<21, 61>>,
    <<21, 71>>, <<21, 81>>, <<22, 12>>, <<22, 92>>, <<23, 23>>, <<23, 33>>,
    <<23, 53>>, <<23, 63>>, <<23, 73>>, <<24, 24>>, <<24, 34>>, <<26, 46>>,
    <<26, 56>>, <<26, 66>>, <<26, 76>>, <<26, 96>>, <<27, 97>>, <<28, 48>>,
    <<28, 58>>, <<28, 68>>, <<28, 78>>, <<29, 29>>, <<31, 1>>, <<31, 51>>,
    <<31, 61>>, <<31, 71>>, <<32, 92>>, <<33, 53>>, <<33, 63>>, <<33, 73>>,
    <<34, 24>>, <<36, 6>>, <<36, 46>>, <<36, 56>>, <<36, 66>>, <<36, 76>>,
    <<36, 96>>, <<37, 97>>, <<38, 48>>, <<38, 58>>, <<38, 68>>, <<39, 29>>,
    <<41, 1>>, <<41, 51>>, <<41, 61>>, <<41, 71>>, <<42, 92>>, <<43, 53>>,
    <<43, 63>>, <<43, 73>>, <<44, 24>>, <<46, 46>>, <<46, 56>>, <<46, 66>>,
    <<46, 96>>, <<47, 97>>, <<48, 48>>, <<48, 58>>, <<48, 68>>, <<51, 1>>,
    <<51, 51>>, <<51, 61>>, <<52, 92>>, <<53, 23>>, <<53, 53>>, <<53, 63>>,
    <<56, 96>>, <<57, 7>>, <<57, 17>>, <<57, 97>>, <<58, 48>>, <<58, 58>>,
    <<62, 2>>, <<62, 12>>, <<62, 92>>, <<63, 53>>, <<63, 63>>, <<66, 96>>,
    <<67, 7>>, <<67, 17>>, <<67, 97>>, <<68, 48>>, <<68, 58>>, <<72, 2>>,
    <<72, 12>>, <<72, 92>>, <<73, 53>>, <<76, 96>>, <<77, 7>>, <<77, 97>>,
    <<78, 48>>, <<78, 58>>, <<82, 2>>, <<82, 92>>, <<83, 53>>, <<86, 96>>,
    <<87, 7>>, <<87, 97>>, <<88, 48>>
    }

\* int(0.3 * days_from_parsed + 0.7 * days_offset)
Blend(a, b) ==
    IF <<a, b>> \in BlendShortfall
    THEN ((3 * a + 7 * b) \div 10) - 1
    ELSE (3 * a + 7 * b) \div 10

days_range_of(months) == months * 30

\* The time of day synthesized from the index (hours, minutes, seconds,
\* microseconds).
SynthTime(i) ==
    [h |-> Min(17, Max(8, 8 + ((i * 7) % 10))),
     m |-> (i * 11) % 60,
     s |-> (i * 19) % 60,
     us |-> (i * 23) % 1000000]

\* days_offset of the reference path.
RefDaysOffset(i, n, dr) ==
    IF n > 1
    THEN FloorDiv(i * dr, n - 1) + ((i * 17) % Max(10, dr \div 10))
    ELSE dr \div 2

\* created_date when the original item carries a creation date that parses.
CreatedFromReference(parsed0, i, n, dr, t_now, min_date) ==
    LET parsed == IF DtGT(parsed0, t_now) THEN AddDays(t_now, -1) ELSE parsed0
        days_offset == RefDaysOffset(i, n, dr)
        days_from_parsed == Max(0, Min(DaysBetween(parsed, min_date), dr))
        blended_days == Max(0, Min(Blend(days_from_parsed, days_offset), dr))
        c1 == AddDays(min_date, blended_days)
        c2 == IF DtGT(c1, t_now) THEN AddDays(t_now, -1) ELSE c1
        c3 == IF DtLT(c2, min_date) THEN min_date ELSE c2
        c4 == ReplaceTime(c3, SynthTime(i))
    IN  IF DtGT(c4, t_now)
        THEN ReplaceTime(AddDays(t_now, -1), SynthTime(i))
        ELSE c4

\* DaysAgo without the clamp of line 185.
DaysAgoUnclamped(i, n, dr) ==
    IF n > 1
    THEN 1 + FloorDiv(i * (dr - 1), n - 1) + ((i * 17) % Max(10, dr \div 20))
    ELSE dr \div 2

\* DaysAgo with the multiplier of the modification variation, 13, in place
\* of 17.
DaysAgoPrime13(i, n, dr) ==
    LET raw == IF n > 1
               THEN 1 + FloorDiv(i * (dr - 1), n - 1)
                      + ((i * 13) % Max(10, dr \div 20))
               ELSE dr \div 2
    IN  Max(1, Min(raw, dr))

\* days_ago of the path without a reference creation date.
DaysAgo(i, n, dr) ==
    LET raw == IF n > 1
               THEN 1 + FloorDiv(i * (dr - 1), n - 1)
                      + ((i * 17) % Max(10, dr \div 20))
               ELSE dr \div 2
    IN  Max(1, Min(raw, dr))

\* created_date of the path without a reference creation date; later is the
\* value of the second clock read, datetime.now().
CreatedDefault(i, n, dr, t_now, later) ==
    LET c1 == ReplaceTime(AddDays(later, -DaysAgo(i, n, dr)), SynthTime(i))
    IN  IF DtGT(c1, t_now)
        THEN ReplaceTime(AddDays(t_now, -1), SynthTime(i))
        ELSE c1

\* modified_date as it stands after the reference block: the parsed
\* reference modification date, clamped to the later clock reads.
ParsedModified(item, later) ==
    IF item = <<>> \/ item[1].modifiedDateTime.k = "empty"
    THEN <<>>
    ELSE LET p == safe_strptime(item[1].modifiedDateTime)
         IN  IF p = <<>> THEN <<>>
             ELSE IF DtGT(p[1], later) THEN <<later>> ELSE p

\* created_date of one record.
CreatedDate(item, i, n, dr, t_now, later) ==
    LET min_date == AddDays(t_now, -dr)
        p == IF item = <<>> \/ item[1].createdDateTime.k = "empty"
             THEN <<>>
             ELSE safe_strptime(item[1].createdDateTime)
    IN  IF p # <<>>
        THEN CreatedFromReference(p[1], i, n, dr, t_now, min_date)
        ELSE CreatedDefault(i, n, dr, t_now, later)

\* whether created_date came from the reference path
HasReferenceCreated(item) ==
    /\ item # <<>>
    /\ item[1].createdDateTime.k = "ok"

-----------------------------------------------------------------------------
(* update_entity_dates: the modification date.  The steps thread the       *)
(* locals mod_hours, mod_minutes, mod_seconds, mod_microseconds (tod) with *)
(* modified_date, as the later steps reuse their latest values.            *)

\* mod_hours .. mod_microseconds as derived from the creation timestamp.
ModTime(created, i) ==
    [h |-> Min(17, Max(8, 8 + ((created.h + i * 7) % 10))),
     m |-> (created.m + (i * 11)) % 60,
     s |-> (created.s + (i * 19)) % 60,
     us |-> (i * 29) % 1000000]

\* The first target: created_date + days_variation, 1..180 days.
InitialModified(created, i, n) ==
    LET raw == IF n > 1
               THEN 1 + FloorDiv(i * 179, n - 1) + ((i * 13) % 7)
               ELSE 30
        days_variation == Max(1, Min(raw, 180))
        tod == ModTime(created, i)
    IN  [modified |-> ReplaceTime(AddDays(created, days_variation), tod),
         tod |-> tod]

\* The narrowing when at least one whole day lies between creation and now.
NarrowByDays(created, i, n, t_now, max_days) ==
    LET raw == IF n > 1
               THEN 1 + FloorDiv(i * (max_days - 1), n - 1)
                      + ((i * 13) % Max(1, Min(7, max_days \div 10)))
               ELSE Max(1, max_days \div 2)
        days_variation == Max(1, Min(raw, max_days))
        m1 == AddDays(created, days_variation)
        tod == ModTime(created, i)
        tod2 == [tod EXCEPT !.h = Min(created.h + 1, 17)]
        m2 == ReplaceTime(m1, tod2)
    IN  IF DtLE(m1, t_now)
        THEN [modified |-> ReplaceTime(m1, tod), tod |-> tod]
        ELSE IF DtGT(m2, t_now)
             THEN [modified |-> [t_now EXCEPT !.s = tod2.s, !.us = tod2.us],
                   tod |-> tod2]
             ELSE [modified |-> m2, tod |-> tod2]

\* The narrowing when no whole day lies between creation and now.
NarrowSameDay(st, created, i, t_now) ==
    IF created.d = t_now.d
    THEN LET mod_seconds == (i * 19) % 60
             mod_microseconds == (i * 29) % 1000000
             tod == [st.tod EXCEPT !.s = mod_seconds, !.us = mod_microseconds]
             m1 == [AddHoursSeconds(created, 1 + (i % 2), mod_seconds)
                        EXCEPT !.us = mod_microseconds]
             m2 == [AddHoursSeconds(created, 0, mod_seconds)
                        EXCEPT !.us = mod_microseconds]
         IN  IF ~DtGT(m1, t_now) THEN [modified |-> m1, tod |-> tod]
             ELSE IF ~DtGT(m2, t_now) THEN [modified |-> m2, tod |-> tod]
             ELSE [modified |-> created, tod |-> tod]
    ELSE [modified |-> created, tod |-> st.tod]

\* if modified_date > now: ... (the progressive narrowing)
NarrowModified(st, created, i, n, t_now) ==
    IF DtGT(st.modified, t_now)
    THEN LET max_days == DaysBetween(t_now, created)
         IN  IF max_days > 0
             THEN NarrowByDays(created, i, n, t_now, max_days)
             ELSE NarrowSameDay(st, created, i, t_now)
    ELSE st

\* if modified_date < created_date: ...
EnforceOrder(st, created) ==
    IF DtLT(st.modified, created)
    THEN [st EXCEPT !.modified = ReplaceTime(AddDays(created, 1), st.tod)]
    ELSE st

\* if created_date > now: ... ; gives created_date and modified_date.
EnforceCreated(st, created, i, t_now) ==
    IF DtGT(created, t_now)
    THEN LET c == ReplaceTime(AddDays(t_now, -1), SynthTime(i))
             m1 == IF DtLE(st.modified, c)
                   THEN ReplaceTime(AddDays(c, 1), ModTime(c, i))
                   ELSE st.modified
             m2 == IF DtGT(m1, t_now) THEN t_now ELSE m1
         IN  [created |-> c, modified |-> m2]
    ELSE [created |-> created, modified |-> st.modified]

\* ClampModified without its clamp.
ClampModifiedMissing(modified, created, t_now) == modified

\* if modified_date > now: ... (the last clamp)
ClampModified(modified, created, t_now) ==
    IF DtGT(modified, t_now)
    THEN LET plus1 == AddDays(created, 1)
             max_modified == IF DtLE(t_now, plus1) THEN t_now ELSE plus1
         IN  IF DtLT(max_modified, created) THEN created ELSE max_modified
    ELSE modified

\* ComputeDates with the modification date clamped the way the creation date
\* is (to now - 1 day) in place of the narrowing and the enforcement pass.
ComputeDatesNaiveClamp(item, i, n, dr, t_now, later) ==
    LET created == CreatedDate(item, i, n, dr, t_now, later)
        s1 == InitialModified(created, i, n)
    IN  [created |-> created,
         modified |-> IF DtGT(s1.modified, t_now)
                      THEN AddDays(t_now, -1)
                      ELSE s1.modified]

\* The pair (created_date, modified_date) handed to the UPDATE for one record.
ComputeDates(item, i, n, dr, t_now, later) ==
    LET created == CreatedDate(item, i, n, dr, t_now, later)
        s1 == InitialModified(created, i, n)
        s2 == NarrowModified(s1, created, i, n, t_now)
        s3 == EnforceOrder(s2, created)
        cm == EnforceCreated(s3, created, i, t_now)
    IN  [created |-> cm.created,
         modified |-> ClampModified(cm.modified, cm.created, t_now)]

-----------------------------------------------------------------------------
(* update_entity_dates: the inputs and the loop.                           *)

\* Clock values of the run: the day is day 0, the time of day is drawn
\* around the synthesized times of day (08:00:00.000000 is that of index 0,
\* 12:22:38.000046 that of index 2, 15:11:19.000023 that of index 1).
NowValues ==
    { [d |-> 0, h |-> 0,  m |-> 0,  s |-> 0,  us |-> 0],
      [d |-> 0, h |-> 7,  m |-> 30, s |-> 0,  us |-> 0],
      [d |-> 0, h |-> 8,  m |-> 0,  s |-> 0,  us |-> 0],
      [d |-> 0, h |-> 12, m |-> 22, s |-> 38, us |-> 46],
      [d |-> 0, h |-> 15, m |-> 11, s |-> 19, us |-> 22],
      [d |-> 0, h |-> 18, m |-> 0,  s |-> 0,  us |-> 0],
      [d |-> 0, h |-> 23, m |-> 59, s |-> 59, us |-> 999999] }

\* A later read of the clock (datetime.now() inside the loop): the same
\* instant or one second on, which may be the next day.
LaterClock(t_now) == { t_now, AddHoursSeconds(t_now, 0, 1) }

NoDateStr == [k |-> "empty", dt |-> [d |-> 0, h |-> 0, m |-> 0]]
BadDateStr == [k |-> "bad", dt |-> [d |-> 0, h |-> 0, m |-> 0]]
DateStr(day, hh, mm) == [k |-> "ok", dt |-> [d |-> day, h |-> hh, m |-> mm]]

\* createdDateTime values: absent, unparsable, or a date in the future, today,
\* yesterday, in the middle of the window, at its start, before it.
CreatedStrings(t_now, dr) ==
    {NoDateStr, BadDateStr,
     DateStr(t_now.d + 3, 0, 0), DateStr(t_now.d, 23, 59),
     DateStr(t_now.d, 0, 0), DateStr(t_now.d - 1, 23, 59),
     DateStr(t_now.d - (dr \div 2), 0, 0), DateStr(t_now.d - dr, 23, 59),
     DateStr(t_now.d - (dr + 40), 0, 0)}

\* modifiedDateTime values: absent, unparsable, past, future.
ModifiedStrings(t_now) ==
    {NoDateStr, BadDateStr, DateStr(t_now.d - 3, 9, 30),
     DateStr(t_now.d + 2, 0, 0)}

\* An original item is absent (or an empty dict), <<>>, or carries the two
\* date strings: every creation string without a modification string, and
\* every modification string with no or with one creation string.
OriginalItems(t_now, dr) ==
    {<<>>}
    \cup { <<[createdDateTime |-> c, modifiedDateTime |-> NoDateStr]>> :
             c \in CreatedStrings(t_now, dr) }
    \cup { <<[createdDateTime |-> c, modifiedDateTime |-> m]>> :
             c \in {NoDateStr, DateStr(t_now.d - (dr \div 2), 0, 0)},
             m \in ModifiedStrings(t_now) }

\* original_item of a record: seeded["original_data"], else original_data[idx]
\* (listed is <<>> when idx >= len(original_data)).  The lookup by name that
\* follows in the source needs a non-empty seeded["original_data"], which the
\* first lookup has already taken.
OriginalItem(own, listed) == IF own # <<>> THEN own ELSE listed

\* The original data of a batch, <<own, listed>>: what every
\* seeded["original_data"] holds and what original_data[idx] holds.  Either
\* one of the two is absent, or both are there and differ.
OriginalPairs(t_now, dr) ==
    LET dated == <<[createdDateTime |-> DateStr(t_now.d - 1, 23, 59),
                    modifiedDateTime |-> DateStr(t_now.d - 3, 9, 30)]>>
        undated == <<[createdDateTime |-> NoDateStr,
                      modifiedDateTime |-> NoDateStr]>>
    IN  { <<o, <<>>>> : o \in OriginalItems(t_now, dr) }
        \cup { <<<<>>, dated>>, <<undated, dated>> }

\* The outcomes of random.shuffle(list(range(n))).
ShuffledIndices(n) ==
    { p \in [1..n -> 0..(n - 1)] : \A a, b \in 1..n : p[a] = p[b] => a = b }

Identity(n) == [i \in 1..n |-> i - 1]


InitDates ==
    /\ total_items \in 0..MaxItems
    /\ months_back \in 1..MaxMonths
    /\ shuffle_dates \in BOOLEAN
    /\ shuffle_dates => total_items <= MaxShuffleItems
    /\ index_mapping \in IF shuffle_dates THEN ShuffledIndices(total_items)
                                         ELSE {Identity(total_items)}
    /\ now \in NowValues
    /\ originals \in OriginalPairs(now, days_range_of(months_back))
    /\ missing_id \in {{}, {0}}
    /\ idx = 0
    /\ loc = <<>>
    /\ stmt = <<>>
    /\ committed = FALSE
    /\ OnlyDates

\* One iteration of `for idx, seeded in enumerate(seeded_items)`: a record
\* without an identifier is skipped, any other gets one UPDATE.
UpdateEntityDatesStep ==
    /\ ~committed
    /\ idx < total_items
    /\ \E later \in LaterClock(now) :
        LET dr == days_range_of(months_back)
            date_idx == index_mapping[idx + 1]
            item == OriginalItem(originals[1], originals[2])
            created0 == CreatedDate(item, date_idx, total_items, dr, now, later)
            dates == ComputeDates(item, date_idx, total_items, dr, now, later)
        IN  IF idx \notin missing_id
            THEN /\ stmt' = <<[created |-> dates.created,
                               modified |-> dates.modified,
                               idx |-> idx]>>
                 /\ loc' = [date_idx |-> date_idx,
                            original_item |-> item,
                            reference_modified |-> ParsedModified(item, later),
                            days_ago |->
                                IF HasReferenceCreated(item) THEN <<>>
                                ELSE <<DaysAgo(date_idx, total_items, dr)>>,
                            first_modified |->
                                InitialModified(created0, date_idx, total_items).modified]
            ELSE UNCHANGED <<stmt, loc>>
    /\ idx' = idx + 1
    /\ UNCHANGED <<total_items, months_back, shuffle_dates, index_mapping, now,
                   originals, missing_id, committed>>
    /\ UNCHANGED notDateVars

\* await get_connection().commit(), after the loop.
CommitDates ==
    /\ ~committed
    /\ idx = total_items
    /\ committed' = TRUE
    /\ UNCHANGED <<total_items, months_back, shuffle_dates, index_mapping, now,
                   originals, missing_id, idx, loc, stmt>>
    /\ UNCHANGED notDateVars

NextDates == UpdateEntityDatesStep \/ CommitDates

SpecDates == InitDates /\ [][NextDates]_vars

-----------------------------------------------------------------------------
(* Properties of update_entity_dates.                                      *)

Written == stmt # <<>>

MinDate == AddDays(now, -days_range_of(months_back))

\* The batch carries no reference creation date.
NoReferenceDates ==
    ~HasReferenceCreated(OriginalItem(originals[1], originals[2]))

\* C1: in every UPDATE that update_entity_dates issues the modification
\* timestamp is greater than or equal to the creation timestamp.
C1_ModifiedNotBeforeCreated ==
    Written => DtLE(stmt[1].created, stmt[1].modified)

\* C1 witness: the first target of the modification date lay after now and
\* the narrowing collapsed it onto the creation timestamp.
C1_Witness ==
    /\ Written
    /\ DtGT(loc.first_modified, now)
    /\ stmt[1].modified = stmt[1].created

\* C2: in every UPDATE both timestamps are less than or equal to now, the
\* clock value read at the start of the run.
C2_NotInFuture ==
    Written => DtLE(stmt[1].created, now) /\ DtLE(stmt[1].modified, now)

\* C2 witness: the narrowed modification date still lay after now and the
\* last clamp set it to now.
C2_Witness ==
    /\ Written
    /\ DtGT(loc.first_modified, now)
    /\ stmt[1].modified = now
    /\ DtLT(stmt[1].created, now)

\* C3: in every UPDATE the creation timestamp is not earlier than
\* min_date = now - lookback_days.
C3_CreatedNotBeforeMinDate ==
    Written => DtLE(MinDate, stmt[1].created)

\* C4: when the original item carries a modification date that parses and is
\* not after now, the UPDATE writes exactly that date as the modification
\* timestamp.
C4_ReferenceModifiedWritten ==
    (/\ Written
     /\ loc.original_item # <<>>
     /\ safe_strptime(loc.original_item[1].modifiedDateTime) # <<>>
     /\ DtLE(safe_strptime(loc.original_item[1].modifiedDateTime)[1], now))
    => stmt[1].modified = safe_strptime(loc.original_item[1].modifiedDateTime)[1]

\* The largest fall of the variation (index * 17) mod divisor from one index
\* to the next.
VariationDrop(dr) ==
    LET divisor == Max(10, dr \div 20)
    IN  IF 17 % divisor = 0 THEN 0 ELSE divisor - (17 % divisor)

\* C5 as stated: without reference dates and without shuffling, days_ago
\* is non-decreasing in the record index, for every batch size.
C5_OffsetsMonotone ==
    (Written /\ NoReferenceDates /\ ~shuffle_dates)
    => \A j \in 0..stmt[1].idx :
          DaysAgo(j, total_items, days_range_of(months_back)) <= loc.days_ago[1]

\* C5 as amended: without reference dates and without shuffling, days_ago is
\* non-decreasing in the record index whenever the step of the linear part,
\* (days_range - 1) / (total_items - 1), exceeds the largest fall of the
\* variation.
C5_OffsetsMonotoneWhenStepExceedsDrop ==
    (/\ Written /\ NoReferenceDates /\ ~shuffle_dates
     /\ (total_items - 1) * VariationDrop(days_range_of(months_back))
            < days_range_of(months_back) - 1)
    => \A j \in 0..stmt[1].idx :
          DaysAgo(j, total_items, days_range_of(months_back)) <= loc.days_ago[1]

\* C5 witness: the last record of a batch of ten over 30 days has been
\* written, after indices whose variation fell.
C5_Witness ==
    /\ Written /\ NoReferenceDates /\ ~shuffle_dates
    /\ total_items = 10 /\ months_back = 1 /\ missing_id = {}
    /\ stmt[1].idx = 9
    /\ loc.days_ago = <<30>>

\* C6: no UPDATE writes a creation timestamp later than now - 1 day.
C6_CreatedAtLeastOneDayOld ==
    Written => DtLE(stmt[1].created, AddDays(now, -1))

-----------------------------------------------------------------------------
(* parse_anthropic_response: text handling.  A text is a sequence of       *)
(* one-character strings; indices are those of the source (from 0), and    *)
(* -1 is "not found".                                                      *)

\* The element of a one-element set.  Only({ e(x) : x \in {v} }) is e for
\* the value of v, computed once, as the right-hand side of an assignment is.
Only(S) == CHOOSE x \in S : TRUE

\* min(S) and max(S) of a non-empty set of integers.
MinOf(S) == Only({ CHOOSE x \in T : \A y \in T : x <= y : T \in {S} })
MaxOf(S) == Only({ CHOOSE x \in T : \A y \in T : x >= y : T \in {S} })

\* text[i]
At(text, i) == text[i + 1]

\* text[a:b] for 0 <= a
Slice(text, a, b) ==
    IF b <= a THEN <<>> ELSE SubSeq(text, a + 1, Min(b, Len(text)))

\* Characters \s matches and str.strip() strips (space, newline, form feed).
Whitespace == {" ", "\n", "\f"}

\* Characters of [\x00-\x08\x0B\x0C\x0E-\x1F\x7F] (form feed).
ControlChars == {"\f"}

\* Whether pat occurs in text at index i.
OccursAt(text, pat, i) ==
    /\ i >= 0
    /\ i + Len(pat) <= Len(text)
    /\ \A k \in 1..Len(pat) : text[i + k] = pat[k]

\* text.find(pat, from)
FindFrom(text, pat, from) ==
    Only({ IF hits = {} THEN -1 ELSE MinOf(hits) :
           hits \in {{ i \in from..(Len(text) - Len(pat)) :
                         OccursAt(text, pat, i) }} })

\* text.find(pat)
Find(text, pat) == FindFrom(text, pat, 0)

\* text.rfind(pat)
RFind(text, pat) ==
    Only({ IF hits = {} THEN -1 ELSE MaxOf(hits) :
           hits \in {{ i \in 0..(Len(text) - Len(pat)) :
                         OccursAt(text, pat, i) }} })

\* The first index >= i that holds none of the characters (len(text) if
\* there is none).
SkipChars(text, i, chars) ==
    Only({ IF rest = {} THEN Max(i, Len(text)) ELSE MinOf(rest) :
           rest \in {{ j \in i..(Len(text) - 1) : At(text, j) \notin chars }} })

\* The first index >= i that holds no whitespace.
SkipWhitespace(text, i) == SkipChars(text, i, Whitespace)

\* The least j in a..b with nothing but whitespace in text[j:b].
TrimEnd(text, a, b) ==
    MinOf({ j \in a..b : \A k \in j..(b - 1) : At(text, k) \in Whitespace })

\* str.strip()
Strip(text) ==
    Only({ Slice(text, first, TrimEnd(text, first, Len(text))) :
           first \in {SkipWhitespace(text, 0)} })

\* The backtick character (written BT: a TLA+ string cannot hold a backtick).
Backtick == "BT"

Fence == <<Backtick, Backtick, Backtick>>
JsonTag == <<"j", "s", "o", "n">>

\* The match of "```(?:json)?\s*(.*?)\s*```" that starts at the fence at
\* index open: group(1) as a one-element sequence, or <<>>.  The content
\* starts after the tag and the whitespace that follow the fence and ends
\* before the whitespace that precedes the next fence.
MatchAt(text, open) ==
    Only({ Only({ IF close = -1 THEN <<>>
                  ELSE << Slice(text, content, TrimEnd(text, content, close)) >> :
                  close \in {FindFrom(text, Fence, content)} }) :
           content \in {SkipWhitespace(text,
                           IF OccursAt(text, JsonTag, open + 3)
                           THEN open + 7 ELSE open + 3)} })

\* re.search(r"```(?:json)?\s*(.*?)\s*```", text, re.DOTALL): group(1), as a
\* one-element sequence, or <<>> when there is no match.  A match starts at
\* the first fence or nowhere.
MarkdownMatch(text) ==
    Only({ IF open = -1 THEN <<>> ELSE MatchAt(text, open) :
           open \in {Find(text, Fence)} })

\* The text searched for the array and json_start when the fence matched
\* (lines 420-426).
LocateInExtracted(text, extracted_content) ==
    Only({ IF json_start_in_extracted # -1
           THEN [text |-> Slice(extracted_content, json_start_in_extracted,
                                Len(extracted_content)),
                 json_start |-> 0]
           ELSE [text |-> text, json_start |-> Find(text, <<"[">>)] :
           json_start_in_extracted \in {Find(extracted_content, <<"[">>)} })

\* The text searched for the array and json_start (lines 418-428).
LocateStart(text) ==
    Only({ IF markdown_match # <<>>
           THEN Only({ LocateInExtracted(text, extracted_content) :
                       extracted_content \in {Strip(markdown_match[1])} })
           ELSE [text |-> text, json_start |-> Find(text, <<"[">>)] :
           markdown_match \in {MarkdownMatch(text)} })

Prefixes == << <<"H", "e", "r", "e", "'", "s">>,
               <<"H", "e", "r", "e", " ", "i", "s">>,
               <<"J", "S", "O", "N", ":">>,
               <<"A", "r", "r", "a", "y", ":">> >>

\* A probe for the phrases alone, not followed by "[".
ProbePhrases(text) ==
    Only({ IF found = {} THEN -1
           ELSE Find(text, Prefixes[MinOf(found)]) + Len(Prefixes[MinOf(found)]) :
           found \in {{ k \in 1..Len(Prefixes) :
                          Find(text, Prefixes[k]) # -1 }} })

\* The probe of the preamble phrases (lines 430-435), for json_start = -1.
ProbePrefixes(text) ==
    Only({ IF found = {} THEN -1
           ELSE Find(text, Prefixes[MinOf(found)] \o <<"[">>)
                + Len(Prefixes[MinOf(found)]) :
           found \in {{ k \in 1..Len(Prefixes) :
                          Find(text, Prefixes[k] \o <<"[">>) # -1 }} })

\* The scan without the escape handling: a backslash is an ordinary character.
ScanStepNoEscape(st, c) ==
    IF c = "\""
    THEN [st EXCEPT !.in_string = ~st.in_string, !.hit = FALSE]
    ELSE IF ~st.in_string /\ c = "["
    THEN [st EXCEPT !.bracket_count = st.bracket_count + 1, !.hit = FALSE]
    ELSE IF ~st.in_string /\ c = "]"
    THEN [st EXCEPT !.bracket_count = st.bracket_count - 1,
                    !.hit = (st.bracket_count - 1 = 0)]
    ELSE [st EXCEPT !.hit = FALSE]

\* One iteration of the bracket scan on character c: the scan state is
\* [bracket_count, in_string, escape_next, hit]; hit says that this
\* character is a "]" outside a string that brought the count to zero.
ScanStep(st, c) ==
    IF st.escape_next
    THEN [st EXCEPT !.escape_next = FALSE, !.hit = FALSE]
    ELSE IF c = "\\"
    THEN [st EXCEPT !.escape_next = TRUE, !.hit = FALSE]
    ELSE IF c = "\""
    THEN [st EXCEPT !.in_string = ~st.in_string, !.hit = FALSE]
    ELSE IF ~st.in_string /\ c = "["
    THEN [st EXCEPT !.bracket_count = st.bracket_count + 1, !.hit = FALSE]
    ELSE IF ~st.in_string /\ c = "]"
    THEN [st EXCEPT !.bracket_count = st.bracket_count - 1,
                    !.hit = (st.bracket_count - 1 = 0)]
    ELSE [st EXCEPT !.hit = FALSE]

ScanInit ==
    [bracket_count |-> 0, in_string |-> FALSE, escape_next |-> FALSE,
     hit |-> FALSE]

RECURSIVE ScanFrom(_, _, _)
\* The scan states after each of the characters i .. len(text) - 1, for a
\* scan that reaches i in state st.
ScanFrom(text, i, st) ==
    IF i >= Len(text) THEN <<>>
    ELSE Only({ <<next>> \o ScanFrom(t, j, next) :
                t \in {text}, j \in {i + 1},
                next \in {ScanStep(st, At(text, i))} })

\* The scan states of `for i in range(json_start, len(text_content))`.
ScanTrace(text, json_start) == ScanFrom(text, json_start, ScanInit)

\* The scan state after the character at i (before the first: the initial).
ScanState(trace, json_start, i) ==
    IF i < json_start THEN ScanInit ELSE trace[i - json_start + 1]

\* The indices at which the count returns to zero.
BalancedAt(text, json_start) ==
    Only({ { i \in json_start..(Len(text) - 1) :
               ScanState(trace, json_start, i).hit } :
           trace \in {ScanTrace(text, json_start)} })

\* The primary scan (lines 443-470): json_end, one past the first character
\* at which the count returns to zero, or -1.
PrimaryEnd(text, json_start) ==
    Only({ IF hits = {} THEN -1 ELSE MinOf(hits) + 1 :
           hits \in {BalancedAt(text, json_start)} })

\* The repeated scan that falls back to the first "]" of the text.
SecondaryEndFirstBracket(text, json_start) ==
    Only({ IF potential_ends # {} THEN MaxOf(potential_ends)
           ELSE IF first_bracket > json_start THEN first_bracket + 1 ELSE -1 :
           potential_ends \in {{ i + 1 : i \in BalancedAt(text, json_start) }},
           first_bracket \in {FindFrom(text, <<"]">>, json_start + 1)} })

\* The repeated scan (lines 472-505): the last of potential_ends, else one
\* past the last "]" of the text if that lies after json_start, else -1.
SecondaryEnd(text, json_start) ==
    Only({ IF potential_ends # {} THEN MaxOf(potential_ends)
           ELSE IF last_bracket > json_start THEN last_bracket + 1 ELSE -1 :
           potential_ends \in {{ i + 1 : i \in BalancedAt(text, json_start) }},
           last_bracket \in {RFind(text, <<"]">>)} })

\* json_end (lines 443-505)
LocateEnd(text, json_start) ==
    Only({ IF json_end # -1 THEN json_end
           ELSE SecondaryEnd(text, json_start) :
           json_end \in {PrimaryEnd(text, json_start)} })

RECURSIVE CollapseFrom(_, _)
\* re.sub(r"\s+", " ", s[i:])
CollapseFrom(s, i) ==
    IF i >= Len(s) THEN <<>>
    ELSE IF At(s, i) \in Whitespace
    THEN <<" ">> \o Only({ CollapseFrom(t, j) :
                           t \in {s}, j \in {SkipWhitespace(s, i)} })
    ELSE <<At(s, i)>> \o Only({ CollapseFrom(t, j) : t \in {s}, j \in {i + 1} })

\* re.sub(r"\s+", " ", s)
CollapseWhitespace(s) == CollapseFrom(s, 0)

RECURSIVE DropCommasFrom(_, _)
\* re.sub(r",(\s*[}\]])", r"\1", s[i:]): a comma goes when whitespace and
\* then a closing bracket or brace follow it.
DropCommasFrom(s, i) ==
    IF i >= Len(s) THEN <<>>
    ELSE Only({ IF At(s, i) = "," /\ next < Len(s) /\ At(s, next) \in {"}", "]"}
                THEN Slice(s, i + 1, next + 1) \o DropCommasFrom(t, next + 1)
                ELSE <<At(s, i)>> \o DropCommasFrom(t, i + 1) :
                t \in {s}, next \in {SkipWhitespace(s, i + 1)} })

\* re.sub(r",(\s*[}\]])", r"\1", s)
DropTrailingCommas(s) == DropCommasFrom(s, 0)

\* The sanitization of the selected span (lines 516-519).
Sanitize(json_str) ==
    Only({ Only({ Only({ DropTrailingCommas(collapsed) :
                         collapsed \in {CollapseWhitespace(spaced)} }) :
                  spaced \in {[k \in 1..Len(stripped) |->
                                 IF stripped[k] \in ControlChars THEN " "
                                 ELSE stripped[k]]} }) :
           stripped \in {Strip(json_str)} })

-----------------------------------------------------------------------------
(* json.loads.  A JSON value is a record [t, s, kids]: t is "str" (s its   *)
(* characters), "num" (s its digits), "arr" (kids its elements) or "obj"   *)
(* (kids its members, each [t |-> "pair", s |-> key, kids |-> <<value>>]). *)
(* A decoding step gives [ok, err, val, end]: the value and the index      *)
(* after it, or the message of the JSONDecodeError.                        *)

NoValue == [t |-> "none", s |-> <<>>, kids |-> <<>>]
StrValue(chars) == [t |-> "str", s |-> chars, kids |-> <<>>]
NumValue(digits) == [t |-> "num", s |-> digits, kids |-> <<>>]
ArrValue(items) == [t |-> "arr", s |-> <<>>, kids |-> items]
PairValue(key, v) == [t |-> "pair", s |-> key, kids |-> <<v>>]
ObjValue(pairs) == [t |-> "obj", s |-> <<>>, kids |-> pairs]

Decoded(v, end) == [ok |-> TRUE, err |-> "", val |-> v, end |-> end]
DecodeError(msg, at) == [ok |-> FALSE, err |-> msg, val |-> NoValue, end |-> at]

\* Whitespace of the JSON grammar.
JsonWhitespace == {" ", "\n"}

\* Characters below 0x20, which a strict JSON string may not hold.
JsonControl == {"\n", "\f"}

Digits == {"1"}

\* _w(s, i).end()
SkipJsonWhitespace(s, i) == SkipChars(s, i, JsonWhitespace)

\* s[i:i+1]
CharAt(s, i) == IF i >= 0 /\ i < Len(s) THEN At(s, i) ELSE ""

\* The character an escape \c stands for, <<>> for an invalid escape.
Unescape(c) ==
    IF c = "\"" THEN <<"\"">>
    ELSE IF c = "\\" THEN <<"\\">>
    ELSE IF c = "/" THEN <<"/">>
    ELSE IF c = "n" THEN <<"\n">>
    ELSE <<>>

RECURSIVE ScanString(_, _, _, _)
\* py_scanstring: the string opened by the quote at begin; i is the index
\* of its next character, acc holds the characters read so far.
ScanString(s, begin, i, acc) ==
    IF i >= Len(s) THEN DecodeError("Unterminated string starting at", begin)
    ELSE IF At(s, i) = "\"" THEN Decoded(StrValue(acc), i + 1)
    ELSE IF At(s, i) = "\\"
    THEN IF i + 1 >= Len(s)
         THEN DecodeError("Unterminated string starting at", begin)
         ELSE IF Unescape(At(s, i + 1)) = <<>>
         THEN DecodeError("Invalid \\escape", i)
         ELSE Only({ ScanString(t, b, j, a) :
                     t \in {s}, b \in {begin}, j \in {i + 2},
                     a \in {acc \o Unescape(At(s, i + 1))} })
    ELSE IF At(s, i) \in JsonControl
    THEN DecodeError("Invalid control character at", i)
    ELSE Only({ ScanString(t, b, j, a) :
                t \in {s}, b \in {begin}, j \in {i + 1},
                a \in {Append(acc, At(s, i))} })

\* The end of the run of digits that starts at i.
NumberEnd(s, i) == SkipChars(s, i, Digits)

\* dict(pairs): a key keeps the place of its first pair and the value of its
\* last.
DictOf(pairs) ==
    LET first == { k \in 1..Len(pairs) :
                     \A j \in 1..(k - 1) : pairs[j].s # pairs[k].s }
        LastOf(key) == CHOOSE k \in 1..Len(pairs) :
                          /\ pairs[k].s = key
                          /\ \A j \in (k + 1)..Len(pairs) : pairs[j].s # key
        Place(k) == Cardinality({ j \in first : j <= k })
    IN  [n \in 1..Cardinality(first) |->
            LET k == CHOOSE k \in first : Place(k) = n
            IN  pairs[LastOf(pairs[k].s)]]

RECURSIVE ScanOnce(_, _), ScanArrayItems(_, _, _), ScanObjectMembers(_, _, _)

\* The part of JSONArray's loop that follows the decoding of an element.
AfterItem(s, item, values) ==
    Only({ IF CharAt(s, j) = "]" THEN Decoded(ArrValue(values), j + 1)
           ELSE IF CharAt(s, j) # ","
           THEN DecodeError("Expecting ',' delimiter", j)
           ELSE ScanArrayItems(s, SkipJsonWhitespace(s, j + 1), values) :
           j \in {SkipJsonWhitespace(s, item.end)} })

\* The loop of JSONArray: i is the index of the next element.
ScanArrayItems(s, i, values) ==
    Only({ IF ~item.ok THEN item
           ELSE Only({ AfterItem(t, item, all) :
                       all \in {Append(values, item.val)} }) :
           t \in {s}, item \in {ScanOnce(s, i)} })

\* The part of JSONObject's loop that follows the decoding of a member.
AfterMember(s, item, pairs) ==
    Only({ IF CharAt(s, j) = "}" THEN Decoded(ObjValue(DictOf(pairs)), j + 1)
           ELSE IF CharAt(s, j) # ","
           THEN DecodeError("Expecting ',' delimiter", j)
           ELSE Only({ IF CharAt(s, next) # "\""
                       THEN DecodeError(
                         "Expecting property name enclosed in double quotes",
                         next)
                       ELSE ScanObjectMembers(s, next + 1, pairs) :
                       next \in {SkipJsonWhitespace(s, j + 1)} }) :
           j \in {SkipJsonWhitespace(s, item.end)} })

\* The part of JSONObject's loop that follows the decoding of a key.
AfterKey(s, key, pairs) ==
    Only({ IF CharAt(s, colon) # ":"
           THEN DecodeError("Expecting ':' delimiter", colon)
           ELSE Only({ IF ~item.ok THEN item
                       ELSE Only({ AfterMember(s, item, all) :
                                   all \in {Append(pairs,
                                              PairValue(key.val.s, item.val))} }) :
                       item \in {ScanOnce(s, SkipJsonWhitespace(s, colon + 1))} }) :
           colon \in {IF CharAt(s, key.end) # ":"
                      THEN SkipJsonWhitespace(s, key.end) ELSE key.end} })

\* The loop of JSONObject: i is the index after the opening quote of the
\* next key.
ScanObjectMembers(s, i, pairs) ==
    Only({ IF ~key.ok THEN key ELSE AfterKey(t, key, kept) :
           t \in {s}, kept \in {pairs},
           key \in {ScanString(s, i - 1, i, <<>>)} })

\* The opening of JSONObject at the "{" at index i.
ScanObject(s, i) ==
    Only({ IF CharAt(s, j) = "}" THEN Decoded(ObjValue(<<>>), j + 1)
           ELSE IF CharAt(s, j) # "\""
           THEN DecodeError(
                  "Expecting property name enclosed in double quotes", j)
           ELSE ScanObjectMembers(s, j + 1, <<>>) :
           j \in {IF CharAt(s, i + 1) \in JsonWhitespace
                  THEN SkipJsonWhitespace(s, i + 1) ELSE i + 1} })

\* The opening of JSONArray at the "[" at index i.
ScanArray(s, i) ==
    Only({ IF CharAt(s, j) = "]" THEN Decoded(ArrValue(<<>>), j + 1)
           ELSE ScanArrayItems(s, j, <<>>) :
           j \in {SkipJsonWhitespace(s, i + 1)} })

\* scan_once(s, i)
ScanOnce(s, i) ==
    IF i >= Len(s) THEN DecodeError("Expecting value", i)
    ELSE IF At(s, i) = "\"" THEN ScanString(s, i, i + 1, <<>>)
    ELSE IF At(s, i) = "{" THEN ScanObject(s, i)
    ELSE IF At(s, i) = "[" THEN ScanArray(s, i)
    ELSE IF At(s, i) \in Digits
    THEN Only({ Decoded(NumValue(Slice(s, i, end)), end) :
                end \in {NumberEnd(s, i)} })
    ELSE DecodeError("Expecting value", i)

\* json.loads(s)
JsonLoads(s) ==
    Only({ IF ~r.ok THEN r
           ELSE Only({ IF end # Len(s) THEN DecodeError("Extra data", end)
                       ELSE r :
                       end \in {SkipJsonWhitespace(s, r.end)} }) :
           r \in {ScanOnce(s, SkipJsonWhitespace(s, 0))} })

-----------------------------------------------------------------------------
(* parse_anthropic_response as a whole.                                    *)

\* The RuntimeError raised for a failure found before decoding.
Raised(msg, text, json_start, json_end) ==
    [ok |-> FALSE, err |-> msg, val |-> NoValue, repaired |-> FALSE,
     text |-> text, json_start |-> json_start, json_end |-> json_end,
     json_str |-> <<>>]

\* A recovery that gives the empty list when the second decoding fails too.
RepairOrEmpty(json_str, e) ==
    Only({ IF /\ e.err \in {"Expecting ',' delimiter", "Expecting ':' delimiter"}
              /\ last_complete_brace > 0
           THEN Only({ IF second.ok THEN second ELSE Decoded(ArrValue(<<>>), 0) :
                       second \in {JsonLoads(
                           Slice(json_str, 0, last_complete_brace + 1)
                           \o <<"]">>)} })
           ELSE e :
           last_complete_brace \in {RFind(json_str, <<"}">>)} })

\* The recovery of a truncated array (lines 526-534): the decoding of the
\* text up to its last "}" closed by "]", attempted for a delimiter error.
RepairTruncated(json_str, e) ==
    Only({ IF /\ e.err \in {"Expecting ',' delimiter", "Expecting ':' delimiter"}
              /\ last_complete_brace > 0
           THEN Only({ JsonLoads(truncated_json) :
                       truncated_json \in
                           {Slice(json_str, 0, last_complete_brace + 1)
                            \o <<"]">>} })
           ELSE e :
           last_complete_brace \in {RFind(json_str, <<"}">>)} })

\* The decoding of the sanitized span (lines 521-535): the decoded value
\* with repaired = FALSE, else the recovered one with repaired = TRUE, else
\* the first error.
DecodeSpan(json_str) ==
    Only({ IF first.ok THEN [decoded |-> first, repaired |-> FALSE]
           ELSE Only({ IF second.ok
                       THEN [decoded |-> second, repaired |-> TRUE]
                       ELSE [decoded |-> first, repaired |-> FALSE] :
                       second \in {RepairTruncated(json_str, first)} }) :
           first \in {JsonLoads(json_str)} })

\* Lines 514-546: the outcome for the span json_start .. json_end of text.
ParseSpan(text, json_start, json_end) ==
    Only({ Only({ [ok |-> span.decoded.ok, err |-> span.decoded.err,
                   val |-> span.decoded.val, repaired |-> span.repaired,
                   text |-> text, json_start |-> json_start,
                   json_end |-> json_end, json_str |-> json_str] :
                  span \in {DecodeSpan(json_str)} }) :
           json_str \in {Sanitize(Slice(text, json_start, json_end))} })

\* Lines 443-546: the outcome for the array that starts at json_start.
ParseFrom(text, json_start) ==
    Only({ IF json_end = -1 \/ json_end <= json_start
           THEN Raised("No valid JSON array ending found", text, json_start,
                       json_end)
           ELSE ParseSpan(text, json_start, json_end) :
           json_end \in {LocateEnd(text, json_start)} })

\* Lines 430-546: the outcome for the text searched and the first index of
\* "[" in it.
ParseLocated(text, found) ==
    Only({ IF json_start = -1
           THEN Raised("No JSON array found in Anthropic response", text,
                       -1, -1)
           ELSE ParseFrom(text, json_start) :
           json_start \in {IF found = -1 THEN ProbePrefixes(text) ELSE found} })

\* The outcome of the call on the reply's text: the returned list, or the
\* RuntimeError, with the span that was selected.
parse_anthropic_response(response_text) ==
    Only({ ParseLocated(located.text, located.json_start) :
           located \in {LocateStart(response_text)} })

-----------------------------------------------------------------------------
(* Texts handed to parse_anthropic_response.                               *)

\* A JSON string literal: \" \\ and \n escaped.
RECURSIVE EscapeChars(_)
EscapeChars(chars) ==
    IF chars = <<>> THEN <<>>
    ELSE (IF Head(chars) = "\"" THEN <<"\\", "\"">>
          ELSE IF Head(chars) = "\\" THEN <<"\\", "\\">>
          ELSE IF Head(chars) = "\n" THEN <<"\\", "n">>
          ELSE <<Head(chars)>>) \o EscapeChars(Tail(chars))

EncodeString(chars) == <<"\"">> \o EscapeChars(chars) \o <<"\"">>

\* The layouts of json.dumps: separators=(",", ":"), the default, and one
\* element per line.
Styles == {"compact", "default", "lines"}

ItemSeparator(style) ==
    IF style = "compact" THEN <<",">>
    ELSE IF style = "default" THEN <<",", " ">>
    ELSE <<",", "\n", " ", " ">>

KeySeparator(style) == IF style = "compact" THEN <<":">> ELSE <<":", " ">>

RECURSIVE JoinTexts(_, _)
JoinTexts(texts, sep) ==
    IF texts = <<>> THEN <<>>
    ELSE IF Len(texts) = 1 THEN texts[1]
    ELSE texts[1] \o sep \o JoinTexts(Tail(texts), sep)

RECURSIVE Encode(_, _)
\* json.dumps of a value in a layout.
Encode(v, style) ==
    IF v.t = "str" THEN EncodeString(v.s)
    ELSE IF v.t = "num" THEN v.s
    ELSE IF v.t = "arr"
    THEN LET pad == IF style = "lines" /\ v.kids # <<>>
                    THEN <<"\n">> ELSE <<>>
         IN  <<"[">> \o pad
             \o JoinTexts([k \in 1..Len(v.kids) |-> Encode(v.kids[k], style)],
                          ItemSeparator(style))
             \o pad \o <<"]">>
    ELSE <<"{">>
         \o JoinTexts([k \in 1..Len(v.kids) |->
                         EncodeString(v.kids[k].s) \o KeySeparator(style)
                         \o Encode(v.kids[k].kids[1], style)],
                      ItemSeparator(style))
         \o <<"}">>

\* Field values of the generated records: plain text, text with a run of
\* two spaces, text that holds a bracket, a quote, a backslash, a comma before
\* a bracket, a number and a nested array.
FieldValues ==
    { StrValue(<<"a">>), StrValue(<<"a", " ", " ", "a">>), StrValue(<<"]">>),
      StrValue(<<"\"">>), StrValue(<<"\\">>), StrValue(<<",", "]">>),
      NumValue(<<"1">>), ArrValue(<<NumValue(<<"1">>)>>) }

Records == { ObjValue(<<PairValue(<<"n">>, v)>>) : v \in FieldValues }

RecordLists == UNION { [1..n -> Records] : n \in 0..MaxRecords }

Prose == <<"a", " ", "a", ":", " ">>

\* The ways a reply carries its array: alone, inside prose, in a fence, in a
\* fence tagged json with prose around it.
Wraps == {"bare", "prose", "fence", "json fence"}

Wrap(t, wrap) ==
    IF wrap = "bare" THEN t
    ELSE IF wrap = "prose" THEN Prose \o t \o <<" ", "a">>
    ELSE IF wrap = "fence" THEN Fence \o <<"\n">> \o t \o <<"\n">> \o Fence
    ELSE Prose \o <<"\n">> \o Fence \o JsonTag \o <<"\n">> \o t \o <<"\n">>
         \o Fence \o <<"\n", "a">>

\* The index after the k-th record in the compact layout of the array.
RecordEnd(rs, k) == Len(Encode(ArrValue(SubSeq(rs, 1, k)), "compact")) - 1

ScanAlphabet == {"[", "]", "{", "}", "\"", "\\", ",", "1"}

\* Every text of up to MaxTextLen characters of the scan alphabet.
ShortTexts == UNION { [1..n -> ScanAlphabet] : n \in 0..MaxTextLen }

\* A reply that holds a well-formed array.
InitWellFormed ==
    \E rs \in RecordLists, style \in Styles, wrap \in Wraps :
        /\ text_content = Wrap(Encode(ArrValue(rs), style), wrap)
        /\ source = [kind |-> "well-formed", records |-> rs,
                     complete |-> Len(rs)]

\* A reply cut short: a compact array of at least one record, cut at or
\* after the end of its first record and before its closing bracket.
InitTruncated ==
    \E rs \in RecordLists \ {<<>>} :
        LET full == Encode(ArrValue(rs), "compact")
        IN  \E cut \in RecordEnd(rs, 1)..(Len(full) - 1) :
                /\ text_content = Slice(full, 0, cut)
                /\ source = [kind |-> "truncated", records |-> rs,
                             complete |-> Cardinality({ k \in 1..Len(rs) :
                                              RecordEnd(rs, k) <= cut })]

\* Any short text.
InitShortText ==
    \E t \in ShortTexts :
        /\ text_content = t
        /\ source = [kind |-> "text", records |-> <<>>, complete |-> 0]

\* What follows a preamble phrase or a fence: nothing, an array, the same
\* without its opening bracket, an array after a space.
Tails ==
    {<<>>, <<"[", "1", "]">>, <<"1", "]">>, <<" ", "[", "1", "]">>}

\* A reply that opens with a preamble phrase, or with a fence that holds
\* no bracket.
InitPreamble ==
    \E t \in Tails :
      \E opening \in { Prefixes[k] : k \in 1..Len(Prefixes) }
                     \cup {Fence \o <<"1">> \o Fence} :
        /\ text_content = opening \o t
        /\ source = [kind |-> "preamble", records |-> <<>>, complete |-> 0]

InitParse ==
    /\ InitWellFormed \/ InitTruncated \/ InitShortText \/ InitPreamble
    /\ result = <<>>
    /\ OnlyParse

\* The call parse_anthropic_response(response_data).
ParseAnthropicResponse ==
    /\ result = <<>>
    /\ result' = <<parse_anthropic_response(text_content)>>
    /\ UNCHANGED <<text_content, source>>
    /\ UNCHANGED notParseVars

NextParse == ParseAnthropicResponse

SpecParse == InitParse /\ [][NextParse]_vars

-----------------------------------------------------------------------------
(* Properties of parse_anthropic_response.                                 *)

\* The outcome of the call, once it was made.
Called == result # <<>>

\* The list the reply was produced from: all its records, or those complete
\* before the cut.
ExpectedRecords == ArrValue(SubSeq(source.records, 1, source.complete))

\* C7: for a reply that holds a well-formed JSON array, inside a fence
\* (tagged json or not) or inside prose, the call returns exactly the
\* array's records: as many, in the same order, every field value unchanged.
C7_WellFormedArrayReturnedUnchanged ==
    (Called /\ source.kind = "well-formed")
        => (result[1].ok /\ result[1].val = ExpectedRecords)

\* C8: for an array cut short after at least one complete object, with no
\* closing bracket of the array, the call returns the list of the complete
\* objects before the cut.
C8_TruncatedArrayRecovered ==
    (Called /\ source.kind = "truncated")
        => (result[1].ok /\ result[1].val = ExpectedRecords)

\* The selected span cut after its last "}" and closed with "]".
ClosedAfterLastBrace(json_str) ==
    Slice(json_str, 0, RFind(json_str, <<"}">>) + 1) \o <<"]">>

\* C9: the call returns no value when no array can be recovered: a text
\* without "[", a text without "]" after the array start, and a span that
\* fails to decode, also when cut after its last "}" and closed, all end in
\* the error; an error carries no list, and a returned value is a list.
C9_NoValueWithoutArray ==
    Called =>
        LET r == result[1]
        IN  /\ Find(text_content, <<"[">>) = -1
                => (~r.ok /\ r.err = "No JSON array found in Anthropic response")
            /\ (r.json_start # -1
                /\ FindFrom(r.text, <<"]">>, r.json_start) = -1)
                => (~r.ok /\ r.err = "No valid JSON array ending found")
            /\ (~JsonLoads(r.json_str).ok
                /\ ~JsonLoads(ClosedAfterLastBrace(r.json_str)).ok)
                => ~r.ok
            /\ ~r.ok => r.val = NoValue
            /\ r.ok => r.val.t = "arr"

\* C9 witness: a span that fails with a delimiter error, holds a "}" and
\* fails again after the repair.
C9_Witness ==
    /\ Called
    /\ result[1].err = "Expecting ',' delimiter"
    /\ RFind(result[1].json_str, <<"}">>) > 0
    /\ ~JsonLoads(ClosedAfterLastBrace(result[1].json_str)).ok

\* The number of backslashes that directly precede index i, from json_start.
BackslashRun(text, json_start, i) ==
    LET breaks == { j \in json_start..(i - 1) : At(text, j) # "\\" }
    IN  IF breaks = {} THEN i - json_start
        ELSE i - 1 - (CHOOSE j \in breaks : \A k \in breaks : j >= k)

\* The character at i follows an odd run of backslashes.
Escaped(text, json_start, i) == BackslashRun(text, json_start, i) % 2 = 1

\* The quotes that open or close a string: those not escaped.
UnescapedQuotes(text, json_start) ==
    { j \in json_start..(Len(text) - 1) :
        At(text, j) = "\"" /\ ~Escaped(text, json_start, j) }

\* Index i lies inside a string span: an odd number of the quotes precede it.
InString(quotes, i) == Cardinality({ j \in quotes : j < i }) % 2 = 1

\* The brackets c that count: outside strings and not escaped.
CountingBrackets(text, json_start, c) ==
    LET quotes == UnescapedQuotes(text, json_start)
    IN  { j \in json_start..(Len(text) - 1) :
            /\ At(text, j) = c
            /\ ~Escaped(text, json_start, j)
            /\ ~InString(quotes, j) }

\* The bracket depth after index i.
Depth(opens, closes, i) ==
    Cardinality({ j \in opens : j <= i }) - Cardinality({ j \in closes : j <= i })

\* One past the first counting "]" at which the depth is zero, or -1.
FirstBalancedClose(text, json_start) ==
    LET opens == CountingBrackets(text, json_start, "[")
        closes == CountingBrackets(text, json_start, "]")
        balanced == { i \in closes : Depth(opens, closes, i) = 0 }
    IN  IF balanced = {} THEN -1
        ELSE (CHOOSE i \in balanced : \A j \in balanced : i <= j) + 1

\* The indices the primary scan visits: up to its end, or all of the text.
Scanned(text, json_start) ==
    LET json_end == PrimaryEnd(text, json_start)
    IN  json_start..(IF json_end = -1 THEN Len(text) - 1 ELSE json_end - 1)

\* C10 as stated: a bracket inside a string span never changes the depth, a
\* quote preceded by a backslash never toggles string mode, and the end is
\* the first "]" outside any string at which the depth returns to zero.
C10_BackslashQuoteNeverToggles ==
    (Called /\ result[1].json_start # -1) =>
        LET text == result[1].text
            json_start == result[1].json_start
            trace == ScanTrace(text, json_start)
            Before(i) == ScanState(trace, json_start, i - 1)
            After(i) == ScanState(trace, json_start, i)
        IN  /\ \A i \in Scanned(text, json_start) :
                (At(text, i) \in {"[", "]"} /\ Before(i).in_string)
                    => After(i).bracket_count = Before(i).bracket_count
            /\ \A i \in Scanned(text, json_start) :
                (At(text, i) = "\"" /\ i > json_start /\ At(text, i - 1) = "\\")
                    => After(i).in_string = Before(i).in_string
            /\ \A i \in Scanned(text, json_start) :
                (/\ At(text, i) = "]"
                 /\ ~Before(i).in_string
                 /\ Cardinality({ j \in json_start..i :
                        At(text, j) = "[" /\ ~Before(j).in_string })
                    = Cardinality({ j \in json_start..i :
                        At(text, j) = "]" /\ ~Before(j).in_string }))
                    => PrimaryEnd(text, json_start) = i + 1

\* C10, amended: the character after an odd run of backslashes is skipped,
\* so a quote toggles string mode exactly when an even run of backslashes
\* precedes it; a bracket that is escaped or inside a string span never
\* changes the depth; and the end the primary scan selects is the first
\* unescaped "]" outside any string at which the depth returns to zero.
C10_EndIsFirstBalancedUnescapedClose ==
    (Called /\ result[1].json_start # -1) =>
        LET text == result[1].text
            json_start == result[1].json_start
            quotes == UnescapedQuotes(text, json_start)
            opens == CountingBrackets(text, json_start, "[")
            closes == CountingBrackets(text, json_start, "]")
            trace == ScanTrace(text, json_start)
            json_end == PrimaryEnd(text, json_start)
        IN  /\ \A i \in Scanned(text, json_start) :
                /\ ScanState(trace, json_start, i).in_string
                       = InString(quotes, i + 1)
                /\ ScanState(trace, json_start, i).bracket_count
                       = Depth(opens, closes, i)
            /\ json_end = FirstBalancedClose(text, json_start)
            /\ json_end # -1 => result[1].json_end = json_end

\* C10 witness: the scan passed a "]" inside a string and an escaped quote
\* and selected the closing bracket of the array.
C10_Witness ==
    /\ Called
    /\ result[1].ok
    /\ result[1].json_end = Len(result[1].text)
    /\ \E i \in 0..(result[1].json_end - 2) :
           /\ At(result[1].text, i) = "]"
           /\ InString(UnescapedQuotes(result[1].text, 0), i)
    /\ \E i \in 0..(result[1].json_end - 2) :
           At(result[1].text, i) = "\"" /\ Escaped(result[1].text, 0, i)

-----------------------------------------------------------------------------
(* seed_example_entity: the deduplication of the loaded batch              *)
(* (core/example_entity.py).  An entity is a record [name, row]: name is   *)
(* the value of its "name" key as a sequence of characters (<<>> when the  *)
(* key is absent: entity.get("name", "")), row its place in the file.      *)

MaxBatch == 5

\* The upper-case letters and their lower-case forms.
LowerOf ==
    ("A" :> "a") @@ ("B" :> "b") @@ ("D" :> "d") @@ ("E" :> "e") @@
    ("I" :> "i")

\* str.lower() that leaves every character as it is.
LowerKeepsCase(name) == name

\* str.lower()
Lower(name) ==
    [k \in 1..Len(name) |->
        IF name[k] \in DOMAIN LowerOf THEN LowerOf[name[k]] ELSE name[k]]

\* The names of the data file.
EntityNames ==
    { <<>>, <<" ">>, <<"a">>, <<"A">>, <<" ", "a">>, <<"B", " ">> }

\* The batch load_existing_data returns: up to MaxBatch records.
InitDedup ==
    /\ \E n \in 0..MaxBatch : \E names \in [1..n -> EntityNames] :
         entities_data = [k \in 1..n |-> [name |-> names[k], row |-> k]]
    /\ seen_names = {}
    /\ unique_entities = <<>>
    /\ entity_pos = 0
    /\ OnlyDedup

\* One iteration of `for entity in entities_data` (lines 33-40).
DedupStep ==
    /\ entity_pos < Len(entities_data)
    /\ LET entity == entities_data[entity_pos + 1]
           entity_name == Strip(entity.name)
           entity_name_lower == Lower(entity_name)
       IN  IF entity_name = <<>>
           THEN UNCHANGED <<seen_names, unique_entities>>
           ELSE IF entity_name_lower \notin seen_names
           THEN /\ seen_names' = seen_names \cup {entity_name_lower}
                /\ unique_entities' = Append(unique_entities, entity)
           ELSE UNCHANGED <<seen_names, unique_entities>>
    /\ entity_pos' = entity_pos + 1
    /\ UNCHANGED entities_data
    /\ UNCHANGED notDedupVars

NextDedup == DedupStep

SpecDedup == InitDedup /\ [][NextDedup]_vars

-----------------------------------------------------------------------------
(* Properties of the deduplication.                                        *)

\* The loop over entities_data has ended.
Deduplicated == entity_pos = Len(entities_data)

\* Two characters that are equal up to case.
SameLetter(c, d) ==
    \/ c = d
    \/ {c, d} \in {{"a", "A"}, {"b", "B"}}

\* A name without its leading and trailing blanks, as the set of its
\* positions.
Trimmed(name) ==
    { k \in 1..Len(name) :
        /\ \E j \in 1..k : name[j] # " "
        /\ \E j \in k..Len(name) : name[j] # " " }

\* Two names that are equal after trimming, up to case.
SameName(a, b) ==
    LET ta == Trimmed(a)
        tb == Trimmed(b)
    IN  /\ Cardinality(ta) = Cardinality(tb)
        /\ \A k \in ta : \A j \in tb :
             Cardinality({ i \in ta : i < k }) = Cardinality({ i \in tb : i < j })
                => SameLetter(a[k], b[j])

\* C11: once the loop has ended, no two kept records have the same name
\* after trimming and case folding, no kept record has an empty or blank
\* name, each kept record is the first record of the input with its name, and
\* the kept records are in the order of the input.
C11_DeduplicatedBatch ==
    Deduplicated =>
        /\ \A i, j \in 1..Len(unique_entities) :
             i # j => ~SameName(unique_entities[i].name, unique_entities[j].name)
        /\ \A i \in 1..Len(unique_entities) :
             /\ Trimmed(unique_entities[i].name) # {}
             /\ unique_entities[i] = entities_data[unique_entities[i].row]
             /\ \A r \in 1..(unique_entities[i].row - 1) :
                  ~SameName(entities_data[r].name, unique_entities[i].name)
        /\ \A i, j \in 1..Len(unique_entities) :
             i < j => unique_entities[i].row < unique_entities[j].row

\* Five records whose names differ only in case (and in blanks) gave one.
C11_Witness ==
    /\ Deduplicated
    /\ Len(entities_data) = 5
    /\ Len(unique_entities) = 1
    /\ \E i, j \in 1..5 :
         /\ entities_data[i].name # entities_data[j].name
         /\ SameName(entities_data[i].name, entities_data[j].name)
    /\ \A i \in 1..5 : Trimmed(entities_data[i].name) # {}

-----------------------------------------------------------------------------
(* ensure_unique_datetime (utils/helpers.py).  A datetime is here a record *)
(* [sec, us]: a count of whole seconds and the microseconds.  used_dates   *)
(* is a record [listed, block]: the set holds the listed strings and the   *)
(* strings of the whole seconds block[1]..block[2] (block is <<>> when     *)
(* there is no such run of seconds).                                       *)

MaxSpan == 2

\* Calls made on one used set.
MaxSequence == 2

\* Line 339.
max_attempts == 86400

HalfSecond == 500000

DateTime(sec, us) == [sec |-> sec, us |-> us]

\* a < b and a > b of two datetimes.
Before(a, b) == a.sec < b.sec \/ (a.sec = b.sec /\ a.us < b.us)
After(a, b) == Before(b, a)

\* date + timedelta(seconds=n)
PlusSeconds(date, n) == DateTime(date.sec + n, date.us)

\* date.isoformat(): the fraction is written only when it is not zero.
IsoFormat(date) == IF date.us = 0 THEN <<date.sec>> ELSE <<date.sec, date.us>>

\* timestamp_str in used_dates
InUsed(timestamp_str, used) ==
    \/ timestamp_str \in used.listed
    \/ /\ used.block # <<>>
       /\ Len(timestamp_str) = 1
       /\ timestamp_str[1] \in used.block[1]..used.block[2]

\* used_dates.add(timestamp_str)
AddUsed(used, timestamp_str) ==
    [used EXCEPT !.listed = @ \cup {timestamp_str}]

\* Lines 321-326: the date without its microseconds, brought under max_date
\* and then over min_date.
Normalized(date, min_date, max_date) ==
    LET whole == DateTime(date.sec, 0)
        capped == IF max_date # <<>> /\ After(whole, max_date[1])
                  THEN max_date[1] ELSE whole
    IN  IF min_date # <<>> /\ Before(capped, min_date[1])
        THEN min_date[1] ELSE capped

\* The probe of one attempt (lines 342-349): the second after
\* original_date, or the second before it when that one is past max_date;
\* broke says that the backward probe fell under min_date.
Probe(original_date, attempt, min_date, max_date) ==
    LET forward == PlusSeconds(original_date, attempt)
        backward == PlusSeconds(original_date, 0 - attempt)
    IN  IF max_date # <<>> /\ After(forward, max_date[1])
        THEN [date |-> backward,
              broke |-> min_date # <<>> /\ Before(backward, min_date[1])]
        ELSE [date |-> forward, broke |-> FALSE]

\* The datetimes and bounds of the calls.
NearDates == { DateTime(sec, us) : sec \in 0..MaxSpan, us \in {0, HalfSecond} }
Bounds == {<<>>} \cup { <<d>> : d \in NearDates }

\* The strings a used set can hold near the dates of the calls.
NearStamps == { <<sec>> : sec \in (0 - 1)..(MaxSpan + 1) }

\* A call with a small used set.
InitNear ==
    \E date \in NearDates, min_date \in Bounds, max_date \in Bounds,
       listed \in SUBSET NearStamps :
        /\ unique_call = [date |-> date, min_date |-> min_date,
                          max_date |-> max_date,
                          used_dates |-> [listed |-> listed, block |-> <<>>]]

\* A call whose date is taken and that finds a whole day of seconds taken:
\* the day after the date, or the day before it when max_date is the date;
\* the last second of that day may be free or not.
InitFullDay ==
    \E forward \in BOOLEAN, short \in 0..1 :
        /\ unique_call =
             [date |-> DateTime(0, 0),
              min_date |-> <<>>,
              max_date |-> IF forward THEN <<>> ELSE <<DateTime(0, 0)>>,
              used_dates |->
                [listed |-> {<<0>>},
                 block |-> IF forward THEN <<1, max_attempts - short>>
                           ELSE <<short - max_attempts, 0 - 1>>]]

InitUnique ==
    /\ InitNear \/ InitFullDay
    /\ used_dates = unique_call.used_dates
    /\ unique_loc = [pc |-> "call"]
    /\ returned_dates = <<>>
    /\ OnlyUnique

\* The return of the call with its value; path names the return statement.
Returned(date, path) == [pc |-> "returned", date |-> date, path |-> path]

\* Lines 321-339: the call up to the loop.
EnsureUniqueDatetime ==
    /\ unique_loc.pc = "call"
    /\ LET date == Normalized(unique_call.date, unique_call.min_date,
                              unique_call.max_date)
           timestamp_str == IsoFormat(date)
       IN  IF ~InUsed(timestamp_str, used_dates)
           THEN /\ used_dates' = AddUsed(used_dates, timestamp_str)
                /\ unique_loc' = Returned(date, "immediate")
           ELSE /\ unique_loc' = [pc |-> "loop", date |-> date,
                                  original_date |-> date, attempt |-> 1,
                                  timestamp_str |-> timestamp_str,
                                  broke |-> FALSE]
                /\ UNCHANGED used_dates
    /\ UNCHANGED <<unique_call, returned_dates>>
    /\ UNCHANGED notUniqueVars

\* One iteration of `for attempt in range(1, max_attempts + 1)`
\* (lines 341-355).
ProbeStep ==
    /\ unique_loc.pc = "loop"
    /\ LET probe == Probe(unique_loc.original_date, unique_loc.attempt,
                          unique_call.min_date, unique_call.max_date)
           timestamp_str == IsoFormat(probe.date)
       IN  IF probe.broke
           THEN /\ unique_loc' = [unique_loc EXCEPT !.pc = "fallback",
                                                    !.date = probe.date,
                                                    !.broke = TRUE]
                /\ UNCHANGED used_dates
           ELSE IF ~InUsed(timestamp_str, used_dates)
           THEN /\ used_dates' = AddUsed(used_dates, timestamp_str)
                /\ unique_loc' = Returned(probe.date, "probe")
           ELSE /\ unique_loc' =
                     [unique_loc EXCEPT
                        !.pc = IF unique_loc.attempt = max_attempts
                               THEN "fallback" ELSE "loop",
                        !.date = probe.date,
                        !.timestamp_str = timestamp_str,
                        !.attempt = IF unique_loc.attempt = max_attempts
                                    THEN @ ELSE @ + 1]
                /\ UNCHANGED used_dates
    /\ UNCHANGED <<unique_call, returned_dates>>
    /\ UNCHANGED notUniqueVars

\* Lines 357-360: the statements after the loop.
Fallback ==
    /\ unique_loc.pc = "fallback"
    /\ used_dates' = AddUsed(used_dates, unique_loc.timestamp_str)
    /\ unique_loc' = Returned(unique_loc.date,
                               IF unique_loc.broke THEN "break"
                               ELSE "exhausted")
    /\ UNCHANGED <<unique_call, returned_dates>>
    /\ UNCHANGED notUniqueVars

\* The caller keeps the returned date and calls again for another date,
\* with the same set and the same bounds.
CallAgain ==
    /\ unique_loc.pc = "returned"
    /\ Len(returned_dates) < MaxSequence - 1
    /\ used_dates.block = <<>>
    /\ \E date \in NearDates :
        unique_call' = [unique_call EXCEPT !.date = date,
                                           !.used_dates = used_dates]
    /\ returned_dates' = Append(returned_dates, unique_loc.date)
    /\ unique_loc' = [pc |-> "call"]
    /\ UNCHANGED used_dates
    /\ UNCHANGED notUniqueVars

NextUnique == EnsureUniqueDatetime \/ ProbeStep \/ Fallback \/ CallAgain

SpecUnique == InitUnique /\ [][NextUnique]_vars

-----------------------------------------------------------------------------
(* Properties of ensure_unique_datetime.                                   *)

\* The call has returned.
UniqueReturned == unique_loc # <<>> /\ unique_loc.pc = "returned"

\* The returned timestamp was in used_dates when the call was made.
ReturnedWasUsed ==
    InUsed(IsoFormat(unique_loc.date), unique_call.used_dates)

\* C12: a returned timestamp that was in the used set at call time comes
\* from the return that follows max_attempts probes; every other return,
\* the one after the early exit of the loop included, gives a timestamp that
\* was not in the used set.
C12_UsedOnlyWhenExhausted ==
    UniqueReturned /\ ReturnedWasUsed => unique_loc.path = "exhausted"

\* min_date <= max_date are both given.
OrderedBounds ==
    /\ unique_call.min_date # <<>>
    /\ unique_call.max_date # <<>>
    /\ ~After(unique_call.min_date[1], unique_call.max_date[1])

\* C13: with min_date <= max_date given, the returned timestamp lies in
\* [min_date, max_date] on every return path.
C13_ReturnedWithinBounds ==
    UniqueReturned /\ OrderedBounds =>
        /\ ~Before(unique_loc.date, unique_call.min_date[1])
        /\ ~After(unique_loc.date, unique_call.max_date[1])

-----------------------------------------------------------------------------
(* seed_example_entity (core/example_entity.py) with app_session,          *)
(* init_session, close_session, get_session, authenticate, submit_form and *)
(* the identifier extraction of utils/api_utils.py.  The deduplicated      *)
(* batch is the rows 1..batch.  A URL is the sequence of its query         *)
(* parameters [key, value], a response body a sequence of characters.      *)

MaxUnique == 2

\* @retry(stop=stop_after_attempt(3), wait=wait_fixed(2)) of
\* seed_example_entity, authenticate and submit_form.
stop_after_attempt == 3
wait_fixed == 2

\* The value of a decimal digit.
DigitValue ==
    ("0" :> 0) @@ ("1" :> 1) @@ ("2" :> 2) @@ ("3" :> 3) @@ ("4" :> 4) @@
    ("5" :> 5) @@ ("6" :> 6) @@ ("7" :> 7) @@ ("8" :> 8) @@ ("9" :> 9)

RECURSIVE DigitsValue(_, _)
\* The number the first n digits of chars write.
DigitsValue(chars, n) ==
    IF n = 0 THEN 0
    ELSE 10 * DigitsValue(chars, n - 1) + DigitValue[chars[n]]

\* int(chars): the number as a one-element sequence, <<>> for ValueError.
ParseInt(chars) ==
    IF chars # <<>> /\ \A k \in 1..Len(chars) : chars[k] \in DOMAIN DigitValue
    THEN <<DigitsValue(chars, Len(chars))>>
    ELSE <<>>

\* parse_qs(query)[key][0] as a one-element sequence, <<>> when the key has
\* no value (parse_qs drops the parameters with an empty value).
FirstValue(url, key) ==
    LET at == { k \in 1..Len(url) : url[k].key = key /\ url[k].value # <<>> }
    IN  IF at = {} THEN <<>> ELSE <<url[MinOf(at)].value>>

\* extract_entity_id_from_url: the identifier as a one-element sequence,
\* <<>> for ValueError.  The first of the parameters entityID and id that
\* the URL carries decides.
extract_entity_id_from_url(url) ==
    IF FirstValue(url, "entityID") # <<>>
    THEN ParseInt(FirstValue(url, "entityID")[1])
    ELSE IF FirstValue(url, "id") # <<>>
    THEN ParseInt(FirstValue(url, "id")[1])
    ELSE <<>>

\* Whether pat matches in content at index i, letter case ignored.
MatchesAt(content, pat, i) ==
    /\ i >= 0
    /\ i + Len(pat) <= Len(content)
    /\ \A k \in 1..Len(pat) : Lower(<<content[i + k]>>) = Lower(<<pat[k]>>)

\* The digits of the longest run of digits at index i.
DigitRun(content, i) ==
    Slice(content, i, SkipChars(content, i, DOMAIN DigitValue))

\* re.search(name + r"[=:](\d+)", content, re.IGNORECASE): group(1) as a
\* one-element sequence, or <<>>.
SearchAssigned(content, name) ==
    LET hits == { i \in 0..(Len(content) - Len(name) - 2) :
                    /\ MatchesAt(content, name, i)
                    /\ At(content, i + Len(name)) \in {"=", ":"}
                    /\ At(content, i + Len(name) + 1) \in DOMAIN DigitValue }
    IN  IF hits = {} THEN <<>>
        ELSE <<DigitRun(content, MinOf(hits) + Len(name) + 1)>>

NameAttribute == <<"n", "a", "m", "e", "=", "\"", "e", "n", "t", "i", "t", "y", "I", "D", "\"">>
ValueAttribute == <<"v", "a", "l", "u", "e", "=", "\"">>

\* re.search(r'name="entityID"[^>]*value="(\d+)"', content, re.IGNORECASE):
\* group(1) as a one-element sequence, or <<>>.  The match starts at the
\* first name attribute that has such a value attribute before the next
\* ">", and [^>]* takes as many characters as it can.
SearchHiddenInput(content) ==
    LET Values(from) ==
            { j \in from..(Len(content) - Len(ValueAttribute) - 2) :
                /\ MatchesAt(content, ValueAttribute, j)
                /\ \A k \in from..(j - 1) : At(content, k) # ">"
                /\ At(content, j + Len(ValueAttribute)) \in DOMAIN DigitValue
                /\ LET after == SkipChars(content, j + Len(ValueAttribute),
                                          DOMAIN DigitValue)
                   IN  after < Len(content) /\ At(content, after) = "\"" }
        starts == { i \in 0..(Len(content) - Len(NameAttribute)) :
                      /\ MatchesAt(content, NameAttribute, i)
                      /\ Values(i + Len(NameAttribute)) # {} }
    IN  IF starts = {} THEN <<>>
        ELSE <<DigitRun(content,
                        MaxOf(Values(MinOf(starts) + Len(NameAttribute)))
                        + Len(ValueAttribute))>>

EntityIdName == <<"e", "n", "t", "i", "t", "y", "I", "D">>
IdName == <<"i", "d">>

\* extract_entity_id_from_content: the identifier as a one-element
\* sequence, <<>> for ValueError.  The first pattern that matches decides.
extract_entity_id_from_content(content) ==
    IF SearchAssigned(content, EntityIdName) # <<>>
    THEN ParseInt(SearchAssigned(content, EntityIdName)[1])
    ELSE IF SearchAssigned(content, IdName) # <<>>
    THEN ParseInt(SearchAssigned(content, IdName)[1])
    ELSE IF SearchHiddenInput(content) # <<>>
    THEN ParseInt(SearchHiddenInput(content)[1])
    ELSE <<>>

\* Lines 147-162 with the extraction from the body before the one from the
\* URL.
ExtractBodyFirst(url, content) ==
    IF extract_entity_id_from_content(content) # <<>>
    THEN extract_entity_id_from_content(content)
    ELSE extract_entity_id_from_url(url)

\* Lines 155-162: result["entity_id"] (<<>> is None).  The body is searched
\* when the URL raised ValueError, and a ValueError of the body is
\* suppressed.
ExtractEntityId(url, content) ==
    IF extract_entity_id_from_url(url) # <<>>
    THEN extract_entity_id_from_url(url)
    ELSE extract_entity_id_from_content(content)

\* Lines 116-163 of submit_form: the result of a request that was answered.
SubmitResult(response) ==
    [status_code |-> response.status,
     url |-> response.url,
     content |-> response.content,
     entity_id |-> IF response.status \in {200, 302}
                   THEN ExtractEntityId(response.url, response.content)
                   ELSE <<>>]

Param(key, value) == [key |-> key, value |-> value]

\* The answers of the remote endpoint: status, final URL and body; in_url
\* and in_body are the identifiers the server put into them.
Response(status, url, content, in_url, in_body) ==
    [status |-> status, url |-> url, content |-> content,
     in_url |-> in_url, in_body |-> in_body]

Responses ==
    { Response(200, <<Param("entityID", <<"7">>)>>, <<>>, <<7>>, <<>>),
      Response(200, <<Param("page", <<"1">>), Param("id", <<"7">>)>>,
               <<"e", "n", "t", "i", "t", "y", "i", "d", "=", "8">>, <<7>>, <<8>>),
      Response(200, <<Param("entityID", <<"x">>)>>, <<"i", "d", ":", "8">>, <<>>, <<8>>),
      Response(200, <<Param("id", <<>>)>>, 
               <<"<", "i", "n", "p", "u", "t", " ",
                 "n", "a", "m", "e", "=", "\"", "e", "n", "t", "i", "t", "y", "I", "D", "\"", " ",
                 "v", "a", "l", "u", "e", "=", "\"", "8", "\"", ">">>, <<>>, <<8>>),
      Response(200, <<Param("page", <<"1">>)>>, <<"o", "k">>, <<>>, <<>>),
      Response(302, <<Param("id", <<"1", "7">>)>>, <<>>, <<17>>, <<>>),
      Response(500, <<Param("id", <<"7">>)>>, <<>>, <<7>>, <<>>) }

\* A request that raises an exception (connection error, timeout).
RequestRaises == Response(0, <<>>, <<>>, <<>>, <<>>)

\* What one request of submit_form can meet, with the value submit_form
\* returns for it as a one-element sequence: an answer, or an exception
\* (lines 166-168), for which nothing is returned.
RequestOutcomes ==
    { [row |-> 0, response |-> r, result |-> <<SubmitResult(r)>>] :
      r \in Responses }
    \cup {[row |-> 0, response |-> RequestRaises, result |-> <<>>]}

\* What the login request can meet: status 200, another status, or an
\* exception.
LoginOutcomes == {"accepted", "rejected", "raised"}

\* authenticate (lines 57-90): the cookies are stored for status 200; a
\* rejected login and an exception both return False, so that the retry of
\* line 57 never runs a second attempt.
Authenticate(h, login) ==
    [h EXCEPT !.cookies = IF login = "accepted" THEN "set" ELSE @,
              !.logins = @ + 1]

\* init_session (lines 21-27); the value of authenticate() is dropped.
InitSession(h, login) ==
    IF h.session = "None"
    THEN Authenticate([h EXCEPT !.session = "open", !.created = @ + 1],
                      login)
    ELSE h

\* get_session (lines 39-44); no login is made when the session is open.
GetSession(h, login) ==
    IF h.session = "None" THEN InitSession(h, login) ELSE h

\* close_session that leaves the session and the cookies as they are.
KeepSession(h) == h

\* close_session (lines 30-36)
CloseSession(h) == [h EXCEPT !.session = "None", !.cookies = "None"]

\* The module state of lines 16-17, with the counts of one scope at zero.
NoSession ==
    [session |-> "None", cookies |-> "None", created |-> 0, logins |-> 0]

\* Lines 28-43 of one attempt of seed_example_entity: the locals before the
\* scope is entered.  logged is what the loop has logged for each row
\* ("seeded" and "unidentified" stand for the rows with status 200, with
\* and without identifier, that log nothing); last is the latest answer to
\* a request and what submit_form returned for it.
SeedLocals(attempt_number, n) ==
    [pc |-> "start", attempt_number |-> attempt_number, pos |-> 0,
     tries |-> 0, seeded_count |-> 0, seeded_entities |-> <<>>,
     logged |-> [r \in 1..n |-> "none"], last |-> <<>>]

InitSeed ==
    /\ batch \in 0..MaxUnique
    /\ http = NoSession
    /\ seed = SeedLocals(1, batch)
    /\ posts = [r \in 1..batch |-> 0]
    /\ slept = 0
    /\ backfilled = <<>>
    /\ summary = <<>>
    /\ first_seeded = <<>>
    /\ OnlySeed

\* `async with api_utils.app_session():` up to the yield (lines 48-52).
EnterSession ==
    /\ seed.pc = "start"
    /\ \E login \in LoginOutcomes :
         http' = InitSession([http EXCEPT !.created = 0, !.logins = 0],
                             login)
    /\ seed' = [seed EXCEPT !.pc = "loop"]
    /\ UNCHANGED <<batch, posts, slept, backfilled, summary, first_seeded>>
    /\ UNCHANGED notSeedVars

\* Lines 57-67: what the loop does with the result of submit_form.
HandleResult(locals, row, res) ==
    IF res.status_code = 200
    THEN IF res.entity_id # <<>> /\ res.entity_id[1] # 0
         THEN [locals EXCEPT
                 !.seeded_entities =
                     Append(@, [original_data |-> row,
                                entity_id |-> res.entity_id[1],
                                status |-> "success"]),
                 !.seeded_count = @ + 1,
                 !.logged[row] = "seeded"]
         ELSE [locals EXCEPT !.logged[row] = "unidentified"]
    ELSE [locals EXCEPT !.logged[row] = "warning"]

\* The loop that ends at the first record whose submission raised.
StopAtError(locals, raised) ==
    [locals EXCEPT !.pos = IF raised THEN Len(locals.logged) ELSE @ + 1,
                   !.tries = 0]

\* The end of one iteration of `for entity in tqdm(unique_entities)`: the
\* loop goes on with the next record, also after the except clause of
\* lines 68-69.
NextEntity(locals, raised) == [locals EXCEPT !.pos = @ + 1, !.tries = 0]

\* One request of submit_form for the record at the loop position, and,
\* when submit_form returns or gives up, the rest of the iteration
\* (lines 46-69).  An exception is retried after wait_fixed seconds until
\* stop_after_attempt requests were made; then the error is logged.
SubmitForm ==
    /\ seed.pc = "loop"
    /\ seed.pos < batch
    /\ \E login \in IF http.session = "None" THEN LoginOutcomes
                     ELSE {"none"} :
         http' = GetSession(http, login)
    /\ \E request \in RequestOutcomes :
        LET row == seed.pos + 1
            asked == [seed EXCEPT !.last = <<[request EXCEPT !.row = row]>>]
        IN  /\ posts' = [posts EXCEPT ![row] = @ + 1]
            /\ first_seeded' =
                 IF /\ first_seeded = <<>>
                    /\ request.result # <<>>
                    /\ HandleResult(asked, row, request.result[1]).logged[row]
                           = "seeded"
                 THEN <<row, posts[row] + 1>>
                 ELSE first_seeded
            /\ IF request.result = <<>>
               THEN IF seed.tries + 1 < stop_after_attempt
                    THEN /\ seed' = [asked EXCEPT !.tries = @ + 1]
                         /\ slept' = slept + wait_fixed
                    ELSE /\ seed' = NextEntity(
                                      [asked EXCEPT !.logged[row] = "error"],
                                      TRUE)
                         /\ UNCHANGED slept
               ELSE /\ seed' = NextEntity(
                                 HandleResult(asked, row, request.result[1]),
                                 FALSE)
                    /\ UNCHANGED slept
    /\ UNCHANGED <<batch, backfilled, summary>>
    /\ UNCHANGED notSeedVars

\* The end of the scope after the loop (lines 53-54).
ExitSession ==
    /\ seed.pc = "loop"
    /\ seed.pos = batch
    /\ http' = CloseSession(http)
    /\ seed' = [seed EXCEPT !.pc = "backfill"]
    /\ UNCHANGED <<batch, posts, slept, backfilled, summary, first_seeded>>
    /\ UNCHANGED notSeedVars

\* The call has ended with an exception: its locals are gone.
Ended(pc, n) == [SeedLocals(stop_after_attempt, n) EXCEPT !.pc = pc]

\* An exception that `except Exception` does not catch (KeyboardInterrupt,
\* asyncio.CancelledError) raised in the body of the scope: the finally
\* clause of lines 53-54 runs and the exception leaves seed_example_entity,
\* whose retry does not apply to it.
Interrupt ==
    /\ seed.pc = "loop"
    /\ http' = CloseSession(http)
    /\ seed' = Ended("interrupted", batch)
    /\ UNCHANGED <<batch, posts, slept, backfilled, summary, first_seeded>>
    /\ UNCHANGED notSeedVars

\* Lines 72-89: the backfill of the seeded records and the return.  An
\* exception of update_entity_dates or update_entity_owners (a datastore
\* error) leaves seed_example_entity, and the retry of line 20 runs the
\* whole function again after wait_fixed seconds, stop_after_attempt times
\* at most.
Backfill ==
    /\ seed.pc = "backfill"
    /\ \E raises \in BOOLEAN :
        IF seed.seeded_entities = <<>> \/ ~raises
        THEN /\ ~raises
             /\ backfilled' = IF seed.seeded_entities = <<>> THEN backfilled
                              ELSE <<seed.seeded_entities>>
             /\ summary' = <<[seeded_entities |-> seed.seeded_count,
                              details |-> seed.seeded_entities]>>
             /\ seed' = [seed EXCEPT !.pc = "returned"]
             /\ UNCHANGED slept
        ELSE /\ backfilled' = <<>>
             /\ UNCHANGED summary
             /\ IF seed.attempt_number < stop_after_attempt
                THEN /\ seed' = SeedLocals(seed.attempt_number + 1, batch)
                     /\ slept' = slept + wait_fixed
                ELSE /\ seed' = Ended("failed", batch)
                     /\ UNCHANGED slept
    /\ UNCHANGED <<batch, http, posts, first_seeded>>
    /\ UNCHANGED notSeedVars

NextSeed == EnterSession \/ SubmitForm \/ ExitSession \/ Interrupt \/ Backfill

SpecSeed == InitSeed /\ [][NextSeed]_vars

-----------------------------------------------------------------------------
(* Properties of the seeding run.                                          *)

\* C14: every record of the batch is posted at least once in each attempt
\* of the run that reaches it: the records up to the loop position have
\* been posted, and the loop is only left after the last record, whatever
\* the submissions before it gave.
C14_EveryRecordSubmitted ==
    /\ seed.pc \in {"backfill", "returned"} => seed.pos = batch
    /\ seed.pc = "failed" => \A r \in 1..batch : posts[r] >= stop_after_attempt
    /\ \A r \in 1..batch :
         r <= seed.pos => posts[r] >= seed.attempt_number

\* The first record raised on all its requests and the second was seeded.
C14_Witness ==
    /\ seed.pc = "returned"
    /\ batch = 2
    /\ seed.logged[1] = "error"
    /\ posts[1] = stop_after_attempt
    /\ seed.logged[2] = "seeded"

\* C15: the value returned at the end of the run gives the counts of
\* attempted, succeeded and failed records, attempted = succeeded + failed
\* is the size of the batch, and a record whose requests all raised is among
\* the failed.
C15_SummaryCounts ==
    summary # <<>> =>
        /\ {"attempted", "succeeded", "failed"} \subseteq DOMAIN summary[1]
        /\ summary[1].attempted = batch
        /\ summary[1].attempted = summary[1].succeeded + summary[1].failed
        /\ summary[1].failed >=
             Cardinality({ r \in 1..batch : seed.logged[r] = "error" })

\* C16: no record is posted more than stop_after_attempt times in one run.
C16_AtMostThreePosts ==
    \A r \in 1..batch : posts[r] <= stop_after_attempt

\* The row has an entry in the list.
InBatch(row, entries) ==
    \E k \in 1..Len(entries) : entries[k].original_data = row

\* The identifier the server sent: the one of the URL, else the one of the
\* body, else none.
SentIdentifier(response) ==
    IF response.in_url # <<>> THEN response.in_url ELSE response.in_body

\* C17: a record is in seeded_entities, and in the batch passed to the
\* backfill, only with status 200 and an extracted identifier; the
\* identifier submit_form returns is the one of the URL, else the one of the
\* body, else None, and a record without identifier is not in the batch and
\* has logged no error.
C17_BackfillOnlyIdentified ==
    /\ seed.last # <<>> =>
         LET answer == seed.last[1]
             entries == seed.seeded_entities
         IN  /\ answer.result # <<>> /\ answer.response.status \in {200, 302}
                  => answer.result[1].entity_id = SentIdentifier(answer.response)
             /\ InBatch(answer.row, entries) =>
                  /\ answer.result # <<>>
                  /\ answer.result[1].status_code = 200
                  /\ answer.result[1].entity_id # <<>>
                  /\ entries[Len(entries)] =
                       [original_data |-> answer.row,
                        entity_id |-> answer.result[1].entity_id[1],
                        status |-> "success"]
             /\ answer.result # <<>> /\ answer.result[1].entity_id = <<>> =>
                  /\ ~InBatch(answer.row, entries)
                  /\ seed.logged[answer.row] # "error"
    /\ \A k \in 1..Len(seed.seeded_entities) :
         seed.logged[seed.seeded_entities[k].original_data] = "seeded"
    /\ seed.pc = "returned" /\ seed.seeded_entities # <<>> =>
         backfilled = <<seed.seeded_entities>>

\* The first record was answered 200 without identifier in URL or body, the
\* second with the identifier in the body only: the second alone was passed
\* to the backfill.
C17_Witness ==
    /\ seed.pc = "returned"
    /\ batch = 2
    /\ seed.logged[1] = "unidentified"
    /\ seed.last[1].row = 2
    /\ seed.last[1].response.in_url = <<>>
    /\ seed.last[1].response.in_body # <<>>
    /\ backfilled # <<>>
    /\ Len(backfilled[1]) = 1
    /\ backfilled[1][1].original_data = 2
    /\ backfilled[1][1].entity_id = seed.last[1].response.in_body[1]

\* C18: a record whose submission returned status 200 or 302 with an
\* identifier is counted and is in seeded_entities.
C18_RedirectCountsAsSeeded ==
    /\ seed.last # <<>> =>
         LET answer == seed.last[1]
         IN  /\ answer.result # <<>>
             /\ answer.result[1].status_code \in {200, 302}
             /\ answer.result[1].entity_id # <<>>
             => InBatch(answer.row, seed.seeded_entities)
    /\ seed.seeded_count = Len(seed.seeded_entities)

\* C19: outside a scope the module session is None and the cookies are
\* None, also after an exception in the body; inside a scope the session is
\* open, was created once and authenticate was called once.
C19_SessionReleased ==
    /\ seed.pc # "loop" => http.session = "None" /\ http.cookies = "None"
    /\ seed.pc = "loop" =>
         /\ http.session = "open"
         /\ http.created = 1
         /\ http.logins = 1

\* The scope was left by an exception after a request, and the session it
\* had created is released.
C19_Witness ==
    /\ seed.pc = "interrupted"
    /\ \E r \in 1..batch : posts[r] > 0
    /\ http.created = 1
    /\ http.logins = 1
    /\ http.session = "None"
    /\ http.cookies = "None"

\* C20: in a scope whose login did not succeed no record is posted.
C20_NoSubmissionWithoutLogin ==
    seed.pc = "loop" /\ http.cookies = "None" =>
        seed.pos = 0 /\ seed.tries = 0

-----------------------------------------------------------------------------
(* update_entity_owners (utils/data_utils.py).                              *)
(*                                                                         *)
(* A user is known by its userID value, an optional positive integer; a    *)
(* seeded item by the value stored under seeded_id_key, optional as well.  *)

\* Users returned by get_all_users, and items of a batch.
MaxUsers == 3
MaxOwned == 4

\* bool(value) of an optional integer.
Truthy(value) == value # <<>> /\ value[1] # 0

\* [u for u in all_users if u.get("userID") != 1] or all_users, with the
\* administrator kept in the list.
KeepAdministrator(users) == users

\* [u for u in all_users if u.get("userID") != 1] or all_users
available_users(users) ==
    LET others == SelectSeq(users, LAMBDA u : u # <<1>>)
    IN  IF others # <<>> THEN others ELSE users

\* [u.get("userID") for u in available_users if u.get("userID")]
user_ids(users) ==
    LET kept == SelectSeq(available_users(users), Truthy)
    IN  [k \in 1..Len(kept) |-> kept[k][1]]

\* The userID values are keys: no two users carry the same one.
DistinctIds(users) ==
    \A j, k \in 1..Len(users) :
        j # k /\ users[j] # <<>> => users[j] # users[k]

InitOwners ==
    /\ \E n \in 0..MaxUsers :
        \E users \in [1..n -> {<<>>} \cup { <<u>> : u \in 1..MaxUsers }] :
            /\ DistinctIds(users)
            /\ all_users = users
    /\ \E n \in 0..MaxOwned :
        \E has_id \in [1..n -> BOOLEAN] :
            seeded_items = [k \in 1..n |-> IF has_id[k] THEN <<100 + k>> ELSE <<>>]
    /\ api_table \in BOOLEAN
    /\ owner_idx = 0
    /\ owner_ids = <<>>
    /\ executed = <<>>
    /\ owners_pc = "start"
    /\ OnlyOwners

\* Lines 311-321 and 347-350: the users are read and the scope of the loop
\* is entered, the session of the application or the cursor of the
\* datastore; entering it can raise.
EnterOwners ==
    /\ owners_pc = "start"
    /\ owners_pc' \in {"loop", "raised"}
    /\ UNCHANGED <<all_users, seeded_items, api_table, owner_idx, owner_ids,
                   executed>>
    /\ UNCHANGED notOwnersVars

\* One iteration of the loop over enumerate(seeded_items), lines 323-333 or
\* lines 352-365.  idx % len(user_ids) raises ZeroDivisionError when
\* user_ids is empty.
AssignOwner ==
    /\ owners_pc = "loop"
    /\ owner_idx < Len(seeded_items)
    /\ LET app_id == seeded_items[owner_idx + 1]
           ids == user_ids(all_users)
       IN  IF api_table /\ ~Truthy(app_id)
             THEN /\ owner_ids' = Append(owner_ids, <<>>)
                  /\ owner_idx' = owner_idx + 1
                  /\ UNCHANGED <<executed, owners_pc>>
             ELSE IF Len(ids) = 0
               THEN /\ owners_pc' = "raised"
                    /\ UNCHANGED <<owner_idx, owner_ids, executed>>
               ELSE LET owner_id == ids[(owner_idx % Len(ids)) + 1]
                    IN  /\ owner_ids' = Append(owner_ids, <<owner_id>>)
                        /\ owner_idx' = owner_idx + 1
                        /\ executed' =
                             IF api_table THEN executed
                             ELSE Append(executed, [owner_id |-> owner_id,
                                                    app_id |-> app_id])
                        /\ UNCHANGED owners_pc
    /\ UNCHANGED <<all_users, seeded_items, api_table>>
    /\ UNCHANGED notOwnersVars

\* The loop is over: line 345, or the commit of line 367.
FinishOwners ==
    /\ owners_pc = "loop"
    /\ owner_idx = Len(seeded_items)
    /\ owners_pc' = IF api_table THEN "returned" ELSE "committed"
    /\ UNCHANGED <<all_users, seeded_items, api_table, owner_idx, owner_ids,
                   executed>>
    /\ UNCHANGED notOwnersVars

NextOwners == EnterOwners \/ AssignOwner \/ FinishOwners

SpecOwners == InitOwners /\ [][NextOwners]_vars

\* The identifiers of the users that are not the administrator, in order.
NonAdministrators ==
    LET kept == SelectSeq(all_users, LAMBDA u : u # <<>> /\ u # <<1>>)
    IN  [k \in 1..Len(kept) |-> kept[k][1]]

\* Records that were given the owner p.
OwnedBy(p) == { i \in 1..Len(owner_ids) : owner_ids[i] = <<p>> }

\* C21: the record at position i gets the owner pool[i mod |pool|], pool
\* being the identifiers of the users other than the administrator, in
\* order; the administrator is given a record only when there is no other
\* user; and, no record of the batch lacking its identifier, the numbers of
\* records of two members of the pool differ by at most one.
C21_RoundRobinOwners ==
    LET pool == NonAdministrators
    IN  /\ \A i \in 1..Len(owner_ids) :
            owner_ids[i] # <<>> /\ pool # <<>> =>
                owner_ids[i][1] = pool[((i - 1) % Len(pool)) + 1]
        /\ \A i \in 1..Len(owner_ids) :
            owner_ids[i] = <<1>> =>
                \A k \in 1..Len(all_users) : all_users[k] = <<1>>
        /\ (\A i \in 1..Len(owner_ids) : owner_ids[i] # <<>>) =>
            \A j, k \in 1..Len(pool) :
                Cardinality(OwnedBy(pool[j])) - Cardinality(OwnedBy(pool[k])) <= 1
        /\ \A k \in 1..Len(executed) :
            /\ owner_ids[k] = <<executed[k].owner_id>>
            /\ executed[k].app_id = seeded_items[k]

\* A committed batch of three records or more with the administrator and
\* two other users: the first user got more records than the second.
C21_Witness ==
    /\ owners_pc = "committed"
    /\ Len(executed) >= 3
    /\ \E k \in 1..Len(all_users) : all_users[k] = <<1>>
    /\ Len(NonAdministrators) = 2
    /\ Cardinality(OwnedBy(NonAdministrators[1])) >
           Cardinality(OwnedBy(NonAdministrators[2]))

-----------------------------------------------------------------------------
(* The datastore handle (utils/database.py) and the seed command            *)
(* (app_cli.py).                                                            *)

\* Calls the seeding functions of one command make to utils/database.
MaxCalls == 4

\* What get_connection_pool meets when _db_connection is None: the
\* connection is made, DATABASE_URL does not unpack (ValueError, lines
\* 22-25 and 29), or aiomysql.connect fails.
ConnectOutcomes == {"connected", "ValueError", "OperationalError"}

\* get_connection, lines 11-14.
get_connection(conn) ==
    IF conn = <<>> THEN [raised |-> "RuntimeError", value |-> <<>>]
    ELSE [raised |-> "", value |-> conn]

\* get_connection_pool, lines 17-36: the answer and the new _db_connection.
get_connection_pool(conn, outcome, handle) ==
    IF conn = <<>>
      THEN IF outcome = "connected"
             THEN [raised |-> "", value |-> <<handle>>, conn |-> <<handle>>,
                   connects |-> 1]
             ELSE [raised |-> outcome, value |-> <<>>, conn |-> <<>>,
                   connects |-> 0]
      ELSE [raised |-> "", value |-> conn, conn |-> conn, connects |-> 0]

\* close_connection_pool without the body of its if statement.
LeaveOpen(conn) == [closed |-> {}, conn |-> conn]

\* close_connection_pool, lines 39-43: the handles closed and the new
\* _db_connection.
close_connection_pool(conn) ==
    IF conn # <<>> THEN [closed |-> {conn[1]}, conn |-> <<>>]
    ELSE [closed |-> {}, conn |-> conn]

\* The state of utils/database after a call of get_connection.
CallGetConnection ==
    LET r == get_connection(db_connection)
    IN  /\ db_call' = [op |-> "get_connection", before |-> db_history.last,
                       raised |-> r.raised, value |-> r.value]
        /\ UNCHANGED <<db_connection, connected, db_history>>

\* The state of utils/database after a call of get_connection_pool.
CallGetConnectionPool ==
    \E outcome \in ConnectOutcomes :
        LET r == get_connection_pool(db_connection, outcome,
                                     db_history.connects + 1)
        IN  /\ db_connection' = r.conn
            /\ connected' = IF r.connects = 1 THEN connected \cup {r.conn[1]}
                            ELSE connected
            /\ db_history' = [connects |-> db_history.connects + r.connects,
                              last |-> IF r.raised = "" THEN "open"
                                       ELSE db_history.last]
            /\ db_call' = [op |-> "get_connection_pool",
                           before |-> db_history.last,
                           raised |-> r.raised, value |-> r.value]

\* The state of utils/database after a call of close_connection_pool.
CallCloseConnectionPool ==
    LET r == close_connection_pool(db_connection)
    IN  /\ db_connection' = r.conn
        /\ connected' = connected \ r.closed
        /\ db_history' = [db_history EXCEPT !.last = "closed"]
        /\ db_call' = [op |-> "close_connection_pool",
                       before |-> db_history.last,
                       raised |-> "", value |-> <<>>]

InitDb ==
    /\ db_connection = <<>>
    /\ connected = {}
    /\ db_history = [connects |-> 0, last |-> "none"]
    /\ db_call = <<>>
    /\ cli = [pc |-> "start", calls |-> 0, raised |-> ""]
    /\ OnlyDb

\* A call of get_connection outside the try statement of the command:
\* before the command opens the handle, or after it has closed it.
GetConnectionOutside ==
    /\ cli.pc \in {"start", "exited"}
    /\ cli.calls < MaxCalls
    /\ CallGetConnection
    /\ cli' = [cli EXCEPT !.calls = @ + 1]
    /\ UNCHANGED notDbVars

\* seed, line 49: an exception of get_connection_pool leaves the command
\* before the try statement is entered.
SeedOpen ==
    /\ cli.pc = "start"
    /\ CallGetConnectionPool
    /\ cli' = IF db_call'.raised = ""
                THEN [pc |-> "try", calls |-> 0, raised |-> ""]
                ELSE [pc |-> "exited", calls |-> cli.calls,
                      raised |-> db_call'.raised]
    /\ UNCHANGED notDbVars

\* seed, lines 50-54: a step of a seeding function, which calls
\* utils/database; an exception of the call ends the try block.
SeedingCall ==
    /\ cli.pc = "try"
    /\ cli.calls < MaxCalls
    /\ \/ CallGetConnection
       \/ CallGetConnectionPool
       \/ CallCloseConnectionPool
    /\ cli' = IF db_call'.raised = "" THEN [cli EXCEPT !.calls = @ + 1]
              ELSE [pc |-> "finally", calls |-> cli.calls + 1,
                    raised |-> db_call'.raised]
    /\ UNCHANGED notDbVars

\* seed, lines 50-55: the try block ends, by its last statement or by an
\* exception of a seeding function.
SeedingEnds ==
    /\ cli.pc = "try"
    /\ \E raised \in {"", "Exception"} :
        cli' = [cli EXCEPT !.pc = "finally", !.raised = raised]
    /\ UNCHANGED <<db_connection, connected, db_history, db_call>>
    /\ UNCHANGED notDbVars

\* seed, lines 55-58: the finally clause, then the command ends.
SeedFinally ==
    /\ cli.pc = "finally"
    /\ CallCloseConnectionPool
    /\ cli' = [cli EXCEPT !.pc = "exited", !.calls = 0]
    /\ UNCHANGED notDbVars

NextDb ==
    GetConnectionOutside \/ SeedOpen \/ SeedingCall \/ SeedingEnds \/ SeedFinally

SpecDb == InitDb /\ [][NextDb]_vars

\* C22: get_connection raises when no get_connection_pool has succeeded
\* yet and when close_connection_pool was the last of open and close, and
\* answers the handle otherwise; a get_connection_pool that finds the
\* handle open answers that handle, and at most one connection is ever
\* open, the one held; the seed command leaves no connection open when it
\* ends, whether its seeding functions raised or not.
C22_SingleHandleLifecycle ==
    /\ db_call # <<>> /\ db_call.op = "get_connection" =>
        IF db_call.before \in {"none", "closed"}
          THEN db_call.raised = "RuntimeError"
          ELSE db_call.raised = "" /\ db_call.value = db_connection
    /\ db_call # <<>> /\ db_call.op = "get_connection_pool"
         /\ db_call.raised = "" =>
            db_call.value = db_connection
    /\ connected = { db_connection[k] : k \in 1..Len(db_connection) }
    /\ db_history.last = "open" <=> db_connection # <<>>
    /\ cli.pc = "exited" => db_connection = <<>> /\ connected = {}

\* The command ended after a seeding function raised with the handle
\* open, and get_connection was called afterwards.
C22_Witness ==
    /\ cli.pc = "exited"
    /\ cli.raised = "Exception"
    /\ db_history.connects >= 1
    /\ db_call.op = "get_connection"
    /\ db_call.before = "closed"

-----------------------------------------------------------------------------
(* Further properties of update_entity_dates.                              *)

\* The pair another run writes for the record of the latest UPDATE, from
\* the same items, original data, months_back and clock value now, its
\* reads of the clock inside the loop giving later.
PairOfRun(later) ==
    LET dates == ComputeDates(loc.original_item, loc.date_idx, total_items,
                              days_range_of(months_back), now, later)
    IN  [created |-> dates.created, modified |-> dates.modified]

\* C23: without shuffling, two runs over the same seeded items, the same
\* original data and the same months_back, with the same clock value now,
\* write the same (created, modified) pair for every record.
C23_SameInputsSameDates ==
    (Written /\ ~shuffle_dates) =>
        \A later \in LaterClock(now) :
            PairOfRun(later) = [created |-> stmt[1].created,
                                modified |-> stmt[1].modified]

\* C24: in a batch of two records or more without reference dates and
\* without shuffling, days_ago is 1 for the record at index 0, days_range
\* for the record at the last index, and between 1 and days_range for
\* every record.
C24_OffsetsSpanWindow ==
    (Written /\ NoReferenceDates /\ ~shuffle_dates /\ total_items >= 2) =>
        /\ loc.days_ago[1] >= 1
        /\ loc.days_ago[1] <= days_range_of(months_back)
        /\ stmt[1].idx = 0 => loc.days_ago[1] = 1
        /\ stmt[1].idx = total_items - 1 =>
               loc.days_ago[1] = days_range_of(months_back)

\* C24 witness: the last record of a batch of seven over 60 days has been
\* written with the offset 60, the linear part and the variation exceeding
\* the window.
C24_Witness ==
    /\ Written /\ NoReferenceDates /\ ~shuffle_dates
    /\ total_items = 7 /\ months_back = 2
    /\ stmt[1].idx = 6
    /\ loc.days_ago = <<60>>
    /\ DaysAgoUnclamped(6, 7, 60) > 60

-----------------------------------------------------------------------------
(* calculate_activity_date and calculate_activity_date_modified            *)
(* (utils/helpers.py).  Day 0 is a Monday.  A function that draws random   *)
(* numbers is the set of the values it can return.                         *)

\* Largest days_offset and largest min_days of the calls.
MaxOffset == 2

\* Outcomes of random.randint(a, b) the model follows: both ends and the
\* middle of the range.
Draws(a, b) == {a, b, (a + b) \div 2}

\* dt - timedelta(minutes=mm, seconds=ss)
MinusMinutesSeconds(t, mm, ss) == AddHoursSeconds(t, 0, -(mm * 60 + ss))

\* datetime.weekday(): Monday is 0.
Weekday(t) == t.d % 7

\* skip_weekend, lines 120-127.
skip_weekend(date) ==
    IF Weekday(date) = 5 THEN AddDays(date, 2)
    ELSE IF Weekday(date) = 6 THEN AddDays(date, 1)
    ELSE date

\* hours, minutes, seconds of lines 157-159, with microsecond=0.
TimeDraws ==
    { [h |-> hh, m |-> mm, s |-> ss, us |-> 0] :
        hh \in Draws(8, 17), mm \in Draws(0, 59), ss \in Draws(0, 59) }

\* days_ago, lines 144-155.
DaysAgoDraws(c) ==
    IF c.is_recent_activity
      THEN {IF c.is_past_activity THEN c.days_offset ELSE -c.days_offset}
    ELSE IF c.min_days = 0 /\ c.max_days = 30
      THEN Draws(0, 7) \cup Draws(8, 20) \cup Draws(21, 30)
    ELSE Draws(c.min_days, c.max_days)

\* Lines 167-183: the activity is moved after the entity it relates to.
AfterEntity(c, date, tod) ==
    IF c.min_entity_date # <<>> /\ DtLT(date, c.min_entity_date[1])
      THEN UNION {
        LET moved == ReplaceTime(AddDays(c.min_entity_date[1], d1), tod)
            days_available == DaysBetween(c.base_time, c.min_entity_date[1])
        IN  IF ~DtGT(moved, c.base_time) THEN {moved}
            ELSE IF days_available > 0
              THEN { ReplaceTime(AddDays(c.min_entity_date[1], d2), tod) :
                       d2 \in Draws(1, Max(1, days_available)) }
              ELSE { ReplaceTime(MinusMinutesSeconds(c.base_time, mm, ss), tod) :
                       mm \in Draws(1, 1440), ss \in Draws(0, 59) }
        : d1 \in Draws(1, 30) }
      ELSE {date}

\* Lines 185-196: an activity in the future is replaced, twice if needed,
\* unless it is a scheduled upcoming one.
NotInFuture(c, date, tod) ==
    IF DtGT(date, c.base_time)
         /\ ~(c.is_recent_activity /\ ~c.is_past_activity)
      THEN UNION {
        LET first == ReplaceTime(MinusMinutesSeconds(c.base_time, m1, ss), tod)
        IN  IF DtGT(first, c.base_time)
              THEN { ReplaceTime(MinusMinutesSeconds(c.base_time, m2, s2), tod) :
                       m2 \in Draws(60, 1440), s2 \in Draws(0, 59) }
              ELSE {first}
        : m1 \in Draws(1, 60), ss \in Draws(0, 59) }
      ELSE {date}

\* calculate_activity_date, lines 130-198: the dates it can return.
calculate_activity_date(c) ==
    UNION {
      LET first == ReplaceTime(AddDays(c.base_time, -days_ago), tod)
          skipped == IF c.apply_weekend_skip THEN skip_weekend(first) ELSE first
      IN  UNION { NotInFuture(c, date, tod) : date \in AfterEntity(c, skipped, tod) }
      : days_ago \in DaysAgoDraws(c), tod \in TimeDraws }

\* The branch of lines 212-221, for an upcoming activity.
ModifiedUpcoming(date, base_time) ==
    LET days_until_activity == DaysBetween(date, base_time)
        hours_until_activity == days_until_activity * 24 + (date.h - base_time.h)
    IN  IF days_until_activity > 0
          THEN { LET m == AddHoursSeconds(base_time, hours_offset, 0)
                 IN  IF DtGT(m, date) THEN AddHoursSeconds(date, -1, 0) ELSE m
                 : hours_offset \in Draws(1, Min(hours_until_activity, 48)) }
          ELSE {base_time}

\* min(m, base_time), lines 237, 244, 251 and 256.
NotAfter(m, base_time) == IF DtGT(m, base_time) THEN base_time ELSE m

\* The branch of lines 222-257, for a past activity.
ModifiedPast(date, base_time, max_days_after) ==
    LET max_days_after_created == DaysBetween(base_time, date)
        max_update_days == Min(max_days_after_created, max_days_after)
        recent == { NotAfter(AddHoursSeconds(date, hours_offset, minutes_offset * 60),
                             base_time) :
                      hours_offset \in Draws(1, 2), minutes_offset \in Draws(0, 59) }
        drawn == IF max_days_after_created > 0 /\ max_update_days > 0
                   THEN { NotAfter(ReplaceTime(AddDays(date, days_after_created), tod),
                                   base_time) :
                            days_after_created \in Draws(1, max_update_days),
                            tod \in TimeDraws }
                   ELSE recent
    IN  { IF DtLE(m, date) THEN NotAfter(AddHoursSeconds(date, 1, 0), base_time)
          ELSE m : m \in drawn }

\* calculate_activity_date_modified, lines 201-259: the dates it can return.
calculate_activity_date_modified(date, base_time, is_recent, is_past, max_days_after) ==
    IF is_recent /\ ~is_past THEN ModifiedUpcoming(date, base_time)
    ELSE ModifiedPast(date, base_time, max_days_after)

\* The arguments of a call: base_time is on day 0, early, at midday or
\* late; the entity the activity relates to was created long ago, the day
\* before or on the same day.
InitActivity ==
    /\ \E tod \in {[h |-> 7, m |-> 0, s |-> 0], [h |-> 12, m |-> 30, s |-> 15],
                   [h |-> 18, m |-> 0, s |-> 0]},
          range \in {<<0, 30>>} \cup { <<a, b>> \in (0..MaxOffset) \X (0..MaxOffset) : a <= b },
          entity \in {<<>>, <<-40, 10>>, <<-1, 10>>, <<0, 6>>},
          offset \in 0..MaxOffset,
          flags \in [1..3 -> BOOLEAN] :
        LET base_time == [d |-> 0, h |-> tod.h, m |-> tod.m, s |-> tod.s, us |-> 0]
        IN  activity_call =
              [base_time |-> base_time,
               min_days |-> range[1], max_days |-> range[2],
               min_entity_date |->
                   IF entity = <<>> THEN <<>>
                   ELSE <<[d |-> entity[1], h |-> entity[2], m |-> 0, s |-> 0, us |-> 0]>>,
               is_recent_activity |-> flags[1], is_past_activity |-> flags[2],
               days_offset |-> offset, apply_weekend_skip |-> flags[3],
               max_days_after |-> 180]
    /\ activity_date = <<>>
    /\ date_modified = <<>>
    /\ OnlyActivity

\* A call of calculate_activity_date.
CalculateActivityDate ==
    /\ activity_date = <<>>
    /\ \E date \in calculate_activity_date(activity_call) :
        activity_date' = <<date>>
    /\ UNCHANGED <<activity_call, date_modified>>
    /\ UNCHANGED notActivityVars

\* A call of calculate_activity_date_modified for the date returned.
CalculateActivityDateModified ==
    /\ activity_date # <<>>
    /\ date_modified = <<>>
    /\ \E m \in calculate_activity_date_modified(
                    activity_date[1], activity_call.base_time,
                    activity_call.is_recent_activity,
                    activity_call.is_past_activity,
                    activity_call.max_days_after) :
        date_modified' = <<m>>
    /\ UNCHANGED <<activity_call, activity_date>>
    /\ UNCHANGED notActivityVars

NextActivity == CalculateActivityDate \/ CalculateActivityDateModified

SpecActivity == InitActivity /\ [][NextActivity]_vars

\* The activity is a scheduled upcoming one.
Upcoming ==
    activity_call.is_recent_activity /\ ~activity_call.is_past_activity

\* C25: the date calculate_activity_date returns is not after base_time,
\* unless the activity is a scheduled upcoming one.
C25_ActivityNotAfterBase ==
    activity_date # <<>> /\ ~Upcoming =>
        DtLE(activity_date[1], activity_call.base_time)

\* C26: the date calculate_activity_date_modified returns is after the
\* activity date and not after base_time, for past activities and for
\* upcoming ones.
C26_ModifiedAfterActivity ==
    date_modified # <<>> =>
        /\ DtLT(activity_date[1], date_modified[1])
        /\ DtLE(date_modified[1], activity_call.base_time)

-----------------------------------------------------------------------------
(* Further properties of the seeding run.                                  *)

\* C27: once the submission of a record has succeeded, no further request
\* is posted for it in the run, the retries of seed_example_entity
\* included: the requests posted for the first record seeded in the run
\* are those posted when it was seeded.
C27_SeededNeverResubmitted ==
    first_seeded # <<>> => posts[first_seeded[1]] = first_seeded[2]

-----------------------------------------------------------------------------
(* Further properties of ensure_unique_datetime.                           *)

\* C28: in a sequence of calls on one used set, after each call the string
\* of the returned timestamp is in the set and the set has lost nothing,
\* and the timestamp differs from those the earlier calls returned unless
\* the call made all its max_attempts probes.
C28_ReturnedIsRecorded ==
    UniqueReturned =>
        /\ InUsed(IsoFormat(unique_loc.date), used_dates)
        /\ unique_call.used_dates.listed \subseteq used_dates.listed
        /\ unique_call.used_dates.block = used_dates.block
        /\ unique_loc.path # "exhausted" =>
               \A k \in 1..Len(returned_dates) :
                   returned_dates[k] # unique_loc.date

-----------------------------------------------------------------------------
(* Further properties of parse_anthropic_response.                         *)

\* An array start was found and the primary scan found no balanced close.
NoBalancedClose ==
    /\ Called
    /\ result[1].json_start # -1
    /\ PrimaryEnd(result[1].text, result[1].json_start) = -1

\* C29: the repeated scan records a point where the depth returns to zero
\* only if the primary scan found one; so when the primary scan finds
\* none, json_end is the index after the last "]" of the text if that
\* bracket lies after the array start, and the call fails when it does not.
C29_FallbackIsLastBracket ==
    Called /\ result[1].json_start # -1 =>
        LET r == result[1]
            last_bracket == RFind(r.text, <<"]">>)
        IN  /\ BalancedAt(r.text, r.json_start) # {} =>
                PrimaryEnd(r.text, r.json_start) # -1
            /\ NoBalancedClose =>
                IF last_bracket > r.json_start
                  THEN r.json_end = last_bracket + 1
                  ELSE /\ r.json_end = -1
                       /\ ~r.ok
                       /\ r.err = "No valid JSON array ending found"

\* C29 witness: no balanced close, and two "]" after the array start: the
\* span ends after the second.
C29_Witness ==
    /\ NoBalancedClose
    /\ FindFrom(result[1].text, <<"]">>, result[1].json_start + 1)
           \notin {-1, RFind(result[1].text, <<"]">>)}
    /\ result[1].json_end = RFind(result[1].text, <<"]">>) + 1

\* The text searched for the array, as C30 has it: the content of the
\* fence from its first "[" when it holds one, else the whole text.
SearchText ==
    LET markdown_match == MarkdownMatch(text_content)
        extracted_content ==
            IF markdown_match = <<>> THEN <<>> ELSE Strip(markdown_match[1])
    IN  IF Find(extracted_content, <<"[">>) # -1
        THEN Slice(extracted_content, Find(extracted_content, <<"[">>),
                   Len(extracted_content))
        ELSE text_content

\* C30: json_start, when the call finds one, is the index of the first "["
\* of the text searched, the content of the fence if that holds a "[" and
\* the whole text otherwise; the probe of the preamble phrases finds
\* nothing whenever it runs; and a text without "[" ends in the error
\* "No JSON array found".
C30_StartIsFirstBracket ==
    Called =>
        LET r == result[1]
        IN  /\ r.text = SearchText
            /\ r.json_start = Find(SearchText, <<"[">>)
            /\ Find(r.text, <<"[">>) = -1 => ProbePrefixes(r.text) = -1
            /\ Find(text_content, <<"[">>) = -1 =>
                 /\ ~r.ok
                 /\ r.err = "No JSON array found in Anthropic response"
                 /\ r.json_start = -1

\* C30 witness: the reply opens with a preamble phrase followed by "[",
\* and the start is that bracket; and the witness of the other case, a
\* phrase with no "[" in the text, is the error.
C30_Witness ==
    /\ Called
    /\ source.kind = "preamble"
    /\ \E k \in 1..Len(Prefixes) :
         /\ Find(text_content, Prefixes[k] \o <<"[">>) = 0
         /\ result[1].json_start = Len(Prefixes[k])
    /\ result[1].ok

=============================================================================
